---- MODULE Spec2Model ----
(***************************************************************************)
(* Model of simbotix_core: usage metering (record, aggregate, sync,         *)
(* retention), limit evaluation, overage pricing, usage alerts and their   *)
(* emails, the App License with its cache, the requires_license and        *)
(* requires_quota wrappers, the retrying, signing HTTP client of the       *)
(* central API, check_all_limits, and the hourly jobs taken step by step   *)
(* with their transaction, overlapping and under fair scheduling.          *)
(*                                                                         *)
(* Time is an integer number of minutes since midnight of day 0.  Python   *)
(* floats are modelled as exact rationals: quantities are integers and     *)
(* ratios are compared by cross-multiplication.                            *)
(***************************************************************************)
EXTENDS Integers, Sequences, FiniteSets, TLC

VARIABLES
    now,          \* now_datetime(), in minutes
    ticks,        \* number of clock advances so far (bounds the run)
    settings,     \* the single Simbotix Core Settings document
    records,      \* rows of `tabUsage Record`
    nextName,     \* next Usage Record name handed out by the framework
    queue,        \* background jobs enqueued by record_usage, not yet run
    reported,     \* history: names included in a report_usage call that returned success
    deleted,      \* history: rows removed by cleanup_old_records, as they were when removed
    ret,          \* the last operation and what it returned
    license,      \* the stored App License documents (none or one)
    licenseData,  \* cache entry "simbotix_license_data" (none or one, with its expiry)
    alerts,       \* rows of `tabUsage Alert`
    nextAlert,    \* next Usage Alert name handed out by the framework
    emails,       \* history: per alert name, the emails frappe.sendmail has sent
    req,          \* one call of CentralAPIClient._make_request
    ov,           \* one evaluation of the overage calculators
    signatures,   \* history: what _generate_signature returned, per secret and payload
    jobs          \* the scheduler runs in progress, each with its open transaction

licVars == <<license, licenseData>>
alertVars == <<alerts, nextAlert, emails>>
callVars == <<req, ov, signatures, jobs>>

vars == <<now, ticks, settings, records, nextName, queue, reported, deleted, ret,
          licVars, alertVars, callVars>>

----------------------------------------------------------------------------
(* Bounds of the model *)

MaxTicks == 2
MaxRecords == 2
MaxQueue == 1

(* The batch limit of sync_usage_to_central scaled down for the progress  *)
(* runs, so that more than one batch can be waiting                        *)
SmallBatch == 1

(* Clock advances offered to the metering runs: half an hour, a day, thirty days *)
TickSteps == {30, 1440, 43200}

(* Resources and quantities offered to record_usage in the metering runs *)
MeterResources == {"api_calls"}
QuantityInputs == {-1, 0, 1}

(* Scheduler runs that can be in progress at the same time *)
Runs == {1, 2}

(* A run slot with no job in it *)
IdleRun == [pc |-> "idle"]

----------------------------------------------------------------------------
(* Program constants *)

None == -1

MinutesPerHour == 60
MinutesPerDay == 1440

ResourceType ==
    {"storage_gb", "bandwidth_gb", "database_gb", "api_calls", "file_uploads_gb",
     "executions", "emails", "ai_queries", "webhooks"}

BatchLimit == 1000
RetentionDays == 30

----------------------------------------------------------------------------
(* Dates *)

Today(t) == t \div MinutesPerDay

Midnight(d) == d * MinutesPerDay

HourOf(t) == t - (t % MinutesPerHour)

----------------------------------------------------------------------------
(* Settings *)

DefaultSettings ==
    [warning_threshold |-> 80, hard_limit_threshold |-> 100,
     block_on_exceeded |-> 0, use_redis_cache |-> 1, cache_ttl_seconds |-> 300,
     send_alert_emails |-> 0, alert_email |-> "",
     license_key |-> "", last_usage_sync |-> None]

(* SimbotixCoreSettings.validate: the threshold check *)
SettingsValid(doc) ==
    /\ ~ (doc.warning_threshold # 0 /\ doc.hard_limit_threshold # 0
          /\ doc.warning_threshold >= doc.hard_limit_threshold)
    /\ ~ (doc.cache_ttl_seconds # 0 /\ doc.cache_ttl_seconds < 60)

(* settings.save(): validate, then store *)
SaveSettings(doc) ==
    /\ doc # settings
    /\ settings' = IF SettingsValid(doc) THEN doc ELSE settings
    /\ ret' = [op |-> "save_settings", success |-> SettingsValid(doc)]
    /\ UNCHANGED <<now, ticks, records, nextName, queue, reported, deleted, licVars, alertVars, callVars>>

----------------------------------------------------------------------------
(* Usage Record *)

NewRecord(name, resource, quantity, t) ==
    [name |-> name, resource_type |-> resource, quantity |-> quantity,
     timestamp |-> t, creation |-> t,
     aggregated |-> 0, aggregated_at |-> None,
     period_start |-> None, period_end |-> None,
     synced |-> 0, synced_at |-> None]

Names(S) == {r.name : r \in S}

(* _create_usage_record: insert one row stamped with the current time;  *)
(* a failing insert is logged and swallowed.                             *)
CreateUsageRecord(resource, quantity, insertOk) ==
    IF insertOk /\ quantity >= 0
    THEN /\ records' = records \cup {NewRecord(nextName, resource, quantity, now)}
         /\ nextName' = nextName + 1
    ELSE UNCHANGED <<records, nextName>>

(* The way record_usage takes: none for quantity <= 0, the queue, or the   *)
(* direct insert when frappe.enqueue raises                                *)
RecordUsagePath(quantity, enqueueOk) ==
    IF quantity <= 0 THEN "none" ELSE IF enqueueOk THEN "queue" ELSE "fallback"

(* A record_usage that enqueues the insert and also inserts directly *)
RecordUsageStore_Both(resource, quantity, enqueueOk, insertOk) ==
    /\ nextName + Len(queue) <= MaxRecords
    /\ IF quantity <= 0
       THEN UNCHANGED <<records, nextName, queue>>
       ELSE /\ Len(queue) < MaxQueue
            /\ queue' = Append(queue, [resource |-> resource, quantity |-> quantity])
            /\ CreateUsageRecord(resource, quantity, TRUE)

(* What record_usage does to the queue and the table *)
RecordUsageStore(resource, quantity, enqueueOk, insertOk) ==
    /\ nextName + Len(queue) <= MaxRecords
    /\ IF quantity <= 0
       THEN UNCHANGED <<records, nextName, queue>>
       ELSE IF enqueueOk
       THEN /\ Len(queue) < MaxQueue
            /\ queue' = Append(queue, [resource |-> resource, quantity |-> quantity])
            /\ UNCHANGED <<records, nextName>>
       ELSE /\ CreateUsageRecord(resource, quantity, insertOk)
            /\ UNCHANGED queue

(* record_usage: nothing for quantity <= 0; otherwise enqueue the insert, *)
(* or insert directly when frappe.enqueue raises.                         *)
RecordUsage(resource, quantity, enqueueOk, insertOk) ==
    /\ RecordUsageStore(resource, quantity, enqueueOk, insertOk)
    /\ ret' = [op |-> "record_usage", quantity |-> quantity,
               path |-> RecordUsagePath(quantity, enqueueOk)]
    /\ UNCHANGED <<now, ticks, settings, reported, deleted, licVars, alertVars, callVars>>

(* The background worker runs the oldest enqueued _create_usage_record *)
RunJob(insertOk) ==
    /\ queue # <<>>
    /\ CreateUsageRecord(Head(queue).resource, Head(queue).quantity, insertOk)
    /\ queue' = Tail(queue)
    /\ ret' = [op |-> "run_job", inserted |-> insertOk]
    /\ UNCHANGED <<now, ticks, settings, reported, deleted, licVars, alertVars, callVars>>

----------------------------------------------------------------------------
(* Ordering of query results: ascending key, ties by name *)

Before(a, b, key) ==
    \/ a[key] < b[key]
    \/ a[key] = b[key] /\ a.name < b.name

First(S, key) == CHOOSE a \in S : \A b \in S \ {a} : Before(a, b, key)

RECURSIVE OrderBy(_, _)
OrderBy(S, key) ==
    IF S = {} THEN <<>>
    ELSE LET a == First(S, key) IN <<a>> \o OrderBy(S \ {a}, key)

Limit(s, n) == IF Len(s) <= n THEN s ELSE SubSeq(s, 1, n)

Range(s) == {s[i] : i \in 1..Len(s)}

----------------------------------------------------------------------------
(* aggregate_usage *)

(* A selection that forgets the aggregated flag *)
AggregateFilter_All(r) == r.aggregated \in {0, 1}

(* filters={"aggregated": 0} *)
AggregateFilter(r) == r.aggregated = 0

(* key = f"{resource}_{hour}": the rows of the selection that share r's key *)
SameGroup(r, x) ==
    /\ x.resource_type = r.resource_type
    /\ HourOf(x.timestamp) = HourOf(r.timestamp)

(* The rows of one group are updated in selection order inside one try     *)
(* block: a set_value that raises (name in F) ends the group's loop, so a  *)
(* row is updated when neither it nor an earlier row of its group raises.  *)
AggregateReached(sel, F, r) ==
    \A x \in sel :
        (SameGroup(r, x) /\ (x = r \/ Before(x, r, "timestamp"))) => x.name \notin F

(* A marking that takes the period from the hour of the run *)
AggregateMark_RunHour(r, t) ==
    [r EXCEPT !.aggregated = 1, !.aggregated_at = t,
              !.period_start = HourOf(t),
              !.period_end = HourOf(t) + MinutesPerHour]

(* A marking that writes the synced columns as well *)
AggregateMark_WritesSynced(r, t) ==
    [r EXCEPT !.aggregated = 1, !.aggregated_at = t,
              !.period_start = HourOf(r.timestamp),
              !.period_end = HourOf(r.timestamp) + MinutesPerHour,
              !.synced = 0, !.synced_at = None]

AggregateMark(r, t) ==
    [r EXCEPT !.aggregated = 1, !.aggregated_at = t,
              !.period_start = HourOf(r.timestamp),
              !.period_end = HourOf(r.timestamp) + MinutesPerHour]

AggregateUsage(F) ==
    LET sel == {r \in records : AggregateFilter(r)}
        marked == {r \in sel : AggregateReached(sel, F, r)}
        whole == {r \in sel : \A x \in sel : SameGroup(r, x) => x.name \notin F}
        failed == {r \in sel : r.name \in F /\ AggregateReached(sel, F \ {r.name}, r)}
    IN  /\ F \subseteq Names(sel)
        /\ records' = {IF r \in marked THEN AggregateMark(r, now) ELSE r : r \in records}
        /\ ret' = [op |-> "aggregate_usage",
                   aggregated_count |-> Cardinality(marked),
                   resources |-> {r.resource_type : r \in whole},
                   logged |-> F # {},
                   failed |-> Names(failed)]
        /\ UNCHANGED <<now, ticks, settings, nextName, queue, reported, deleted, licVars, alertVars, callVars>>

----------------------------------------------------------------------------
(* sync_usage_to_central *)

(* A selection that forgets the aggregated flag *)
SyncFilter_AnyUnsynced(r) == r.synced = 0

(* filters={"aggregated": 1, "synced": 0} *)
SyncFilter(r) == r.aggregated = 1 /\ r.synced = 0

(* A selection that takes the newest periods first *)
SyncBatchOf_NewestFirst(n) ==
    LET s == OrderBy({r \in records : SyncFilter(r)}, "period_start")
    IN  IF Len(s) <= n THEN s ELSE SubSeq(s, Len(s) - n + 1, Len(s))

(* order_by="period_start asc", limit=n *)
SyncBatchOf(n) == Limit(OrderBy({r \in records : SyncFilter(r)}, "period_start"), n)

SyncBatch == SyncBatchOf(BatchLimit)

SyncMark(r, t) == [r EXCEPT !.synced = 1, !.synced_at = t]

(* The rows the marking loop updated before set_value raised for a name in F *)
SyncReached(batch, F) ==
    {batch[i] : i \in {j \in 1..Len(batch) : \A k \in 1..j : batch[k].name \notin F}}

(* The answers of client.report_usage: a result with success true, a result *)
(* whose success is not true, or an exception raised by the client          *)
ReportAnswers == {"success", "failed", "exception"}

(* What the marking loop leaves behind when report_usage answered success *)
SyncOnSuccess(batch, F) == {SyncMark(r, now) : r \in SyncReached(batch, F)}

SyncUsageOf(batch, answer, F) ==
    LET sent == Range(batch)
        done == SyncReached(batch, F)
    IN  /\ F \subseteq Names(sent)
        /\ IF settings.license_key = ""
           THEN /\ ret' = [op |-> "sync_usage", success |-> FALSE, synced_count |-> 0]
                /\ UNCHANGED <<records, settings, reported>>
           ELSE IF batch = <<>>
           THEN /\ ret' = [op |-> "sync_usage", success |-> TRUE, synced_count |-> 0]
                /\ UNCHANGED <<records, settings, reported>>
           ELSE IF answer = "exception"
           THEN /\ ret' = [op |-> "sync_usage", success |-> FALSE, synced_count |-> 0]
                /\ UNCHANGED <<records, settings, reported>>
           ELSE IF answer = "failed"
           THEN /\ ret' = [op |-> "sync_usage", success |-> FALSE, synced_count |-> 0]
                /\ UNCHANGED <<records, settings, reported>>
           ELSE /\ reported' = reported \cup Names(sent)
                /\ records' = (records \ done) \cup SyncOnSuccess(batch, F)
                /\ IF done = sent
                   THEN /\ settings' = [settings EXCEPT !.last_usage_sync = now]
                        /\ ret' = [op |-> "sync_usage", success |-> TRUE,
                                   synced_count |-> Len(batch)]
                   ELSE /\ UNCHANGED settings
                        /\ ret' = [op |-> "sync_usage", success |-> FALSE,
                                   synced_count |-> 0]
        /\ UNCHANGED <<now, ticks, nextName, queue, deleted, licVars, alertVars, callVars>>

SyncUsage(answer, F) == SyncUsageOf(SyncBatch, answer, F)

----------------------------------------------------------------------------
(* cleanup_old_records *)

(* cutoff_date = add_days(today(), -30), compared as midnight of that day *)
CutoffDate(t) == Midnight(Today(t) - RetentionDays)

(* A retention filter that forgets the synced flag *)
CleanupFilter_AnySynced(r, t) == r.creation < CutoffDate(t)

(* A retention filter that also takes the rows created at the cutoff itself *)
CleanupFilter_Inclusive(r, t) == r.synced = 1 /\ r.creation <= CutoffDate(t)

(* filters={"synced": 1, "creation": ["<", cutoff_date]} *)
CleanupFilter(r, t) == r.synced = 1 /\ r.creation < CutoffDate(t)

CleanupOldRecords ==
    LET gone == {r \in records : CleanupFilter(r, now)}
    IN  /\ records' = records \ gone
        /\ deleted' = deleted \cup gone
        /\ ret' = [op |-> "cleanup_old_records", deleted_count |-> Cardinality(gone)]
        /\ UNCHANGED <<now, ticks, settings, nextName, queue, reported, licVars, alertVars, callVars>>

----------------------------------------------------------------------------
(* The clock *)

Tick(step) ==
    /\ ticks < MaxTicks
    /\ now' = now + step
    /\ ticks' = ticks + 1
    /\ ret' = [op |-> "tick"]
    /\ UNCHANGED <<settings, records, nextName, queue, reported, deleted, licVars, alertVars, callVars>>

----------------------------------------------------------------------------
(* Metering: the life of usage records *)

LicenseKeys == {"", "KEY"}

InitStore ==
    /\ now = 0
    /\ ticks = 0
    /\ settings = DefaultSettings
    /\ records = {}
    /\ nextName = 1
    /\ queue = <<>>
    /\ reported = {}
    /\ deleted = {}
    /\ ret = [op |-> "init"]
    /\ license = {}
    /\ licenseData = {}
    /\ alerts = {}
    /\ nextAlert = 1
    /\ emails = <<>>
    /\ signatures = {}
    /\ jobs = [i \in Runs |-> IdleRun]

InitMeter ==
    /\ InitStore
    /\ req = [pc |-> "idle"]
    /\ ov = [pc |-> "idle"]

NextMeter ==
    \/ \E k \in LicenseKeys : SaveSettings([settings EXCEPT !.license_key = k])
    \/ \E res \in MeterResources, q \in QuantityInputs, e \in BOOLEAN, i \in BOOLEAN :
          RecordUsage(res, q, e, i)
    \/ \E i \in BOOLEAN : RunJob(i)
    \/ \E F \in SUBSET Names(records) : AggregateUsage(F)
    \/ \E a \in ReportAnswers, F \in SUBSET Names(records) : SyncUsage(a, F)
    \/ CleanupOldRecords
    \/ \E step \in TickSteps : Tick(step)

SpecMeter == InitMeter /\ [][NextMeter]_vars

----------------------------------------------------------------------------
(* App License and its cache *)

(* AppLicense.validate: a non-empty limit map gets a 0 for every missing key *)
NormalizeLimits(limits) ==
    IF DOMAIN limits = {} THEN limits
    ELSE [res \in ResourceType |-> IF res \in DOMAIN limits THEN limits[res] ELSE 0]

(* license_doc.save(): validate, store; on_update deletes the key          *)
(* "simbotix_license_cache", the entry "simbotix_license_data" stays.      *)
SaveLicense(doc) ==
    LET stored == [doc EXCEPT !.resource_limits = NormalizeLimits(doc.resource_limits)]
    IN  /\ license # {stored}
        /\ license' = {stored}
        /\ ret' = [op |-> "save_license"]
        /\ UNCHANGED <<now, ticks, settings, records, nextName, queue, reported, deleted,
                       licenseData, alertVars, callVars>>

(* A validity test under which a license is over on its expiry date *)
IsValid_OverOnExpiryDate(doc, t) ==
    /\ doc.status \in {"Active", "Trial"}
    /\ (doc.expiry_date = None \/ doc.expiry_date > Today(t))

(* AppLicense.is_valid *)
IsValid(doc, t) ==
    /\ doc.status \in {"Active", "Trial"}
    /\ (doc.expiry_date = None \/ doc.expiry_date >= Today(t))

(* get_active_license: the license whose status is Active or Trial *)
GetActiveLicense == {doc \in license : doc.status \in {"Active", "Trial"}}

(* _get_cached_license: the cached dict while caching is on and the entry lives *)
GetCachedLicense ==
    IF settings.use_redis_cache = 0 THEN {}
    ELSE {e.data : e \in {c \in licenseData : now < c.expires}}

(* The dict get_license builds from a license document *)
LicenseDict(doc) ==
    [tier |-> doc.tier, status |-> doc.status, expiry_date |-> doc.expiry_date,
     is_valid |-> IsValid(doc, now), resource_limits |-> doc.resource_limits,
     enabled_features |-> doc.enabled_features, enabled_apps |-> doc.enabled_apps]

(* get_license: the cached dict, else the one built from the active license *)
GetLicense ==
    IF GetCachedLicense # {} THEN GetCachedLicense
    ELSE {LicenseDict(doc) : doc \in GetActiveLicense}

(* _set_cached_license, as get_license calls it on a cache miss; the TTL   *)
(* is in seconds, the clock in minutes                                     *)
CacheAfterGetLicense ==
    IF GetCachedLicense # {} \/ GetActiveLicense = {} \/ settings.use_redis_cache = 0
    THEN {c \in licenseData : now < c.expires}
    ELSE {[data |-> LicenseDict(doc),
           expires |-> now + ((IF settings.cache_ttl_seconds # 0
                               THEN settings.cache_ttl_seconds ELSE 300) \div 60)]
              : doc \in GetActiveLicense}

(* limits.get(resource, 0) *)
LimitOf(limits, resource) ==
    IF resource \in DOMAIN limits THEN limits[resource] ELSE 0

(* get_resource_limit *)
GetResourceLimit(resource) ==
    IF GetLicense = {} THEN 0
    ELSE LimitOf((CHOOSE l \in GetLicense : TRUE).resource_limits, resource)

----------------------------------------------------------------------------
(* Calendar: day 0 is 1 January of a year without 29 February *)

DaysInMonth == <<31, 28, 31, 30, 31, 30, 31, 31, 30, 31, 30, 31>>

RECURSIVE MonthStartFrom(_, _, _)
MonthStartFrom(d, m, start) ==
    IF d < start + DaysInMonth[m] THEN start
    ELSE MonthStartFrom(d, (m % 12) + 1, start + DaysInMonth[m])

(* getdate(today()).replace(day=1) *)
MonthStart(t) == MonthStartFrom(Today(t), 1, 0)

----------------------------------------------------------------------------
(* Limit evaluation *)

RECURSIVE SumQuantity(_)
SumQuantity(S) ==
    IF S = {} THEN 0
    ELSE LET r == CHOOSE x \in S : TRUE IN r.quantity + SumQuantity(S \ {r})

(* get_current_usage: SUM(quantity) WHERE resource_type = %s AND DATE(timestamp) >= month_start *)
GetCurrentUsage(resource) ==
    SumQuantity({r \in records :
                    r.resource_type = resource /\ Today(r.timestamp) >= MonthStart(now)})

(* percentage >= threshold with percentage = (current / limit) * 100, limit > 0 *)
PercentAtLeast(current, limit, threshold) == current * 100 >= threshold * limit

(* A comparison that leaves the boundary value in the lower state *)
PercentAtLeast_Strict(current, limit, threshold) == current * 100 > threshold * limit

(* An unlimited test that looks at the usage instead of the limit *)
IsUnlimited_Usage(limit, current) == current = 0

(* if limit == 0: return "ok" *)
IsUnlimited(limit, current) == limit = 0

(* check_limits, given the settings, the limit and the usage it read *)
LimitStatus(s, limit, current) ==
    IF IsUnlimited(limit, current) THEN "ok"
    ELSE IF PercentAtLeast(current, limit, s.hard_limit_threshold) THEN "exceeded"
    ELSE IF PercentAtLeast(current, limit, s.warning_threshold) THEN "warning"
    ELSE "ok"

CheckLimits(resource) ==
    /\ ret' = [op |-> "check_limits", resource |-> resource,
               status |-> LimitStatus(settings, GetResourceLimit(resource),
                                      GetCurrentUsage(resource))]
    /\ licenseData' = CacheAfterGetLicense
    /\ UNCHANGED <<now, ticks, settings, records, nextName, queue, reported, deleted,
                   license, alertVars, callVars>>

----------------------------------------------------------------------------
(* Limits: settings, license and usage as check_limits sees them *)

(* Thresholds offered to the settings form *)
WarningInputs == {0, 80}
HardInputs == {0, 80, 100}

(* Licenses offered: no limit map, an unlimited and a limited api_calls *)
LimitInputs == {<<>>, [api_calls |-> 0], [api_calls |-> 10]}
StatusInputs == {"Active", "Suspended"}

(* Quantities offered to record_usage: their sums reach 7, 8, 9 and 10, the *)
(* values at and one below 80% and 100% of the limit 10                    *)
UsageInputs == {1, 7, 9}
LimitResources == {"api_calls", "webhooks"}

(* Clock advance offered: 31 days, into the next calendar month *)
LimitTickSteps == {44640}

InitLimits == InitMeter

NextLimits ==
    \/ \E w \in WarningInputs, h \in HardInputs :
          SaveSettings([settings EXCEPT !.warning_threshold = w,
                                        !.hard_limit_threshold = h])
    \/ \E l \in LimitInputs, st \in StatusInputs :
          SaveLicense([tier |-> "Pioneer", status |-> st, expiry_date |-> None,
                       resource_limits |-> l,
                       enabled_features |-> {}, enabled_apps |-> {}])
    \/ \E q \in UsageInputs, e \in BOOLEAN : RecordUsage("api_calls", q, e, TRUE)
    \/ RunJob(TRUE)
    \/ \E res \in LimitResources : CheckLimits(res)
    \/ \E step \in LimitTickSteps : Tick(step)

SpecLimits == InitLimits /\ [][NextLimits]_vars

----------------------------------------------------------------------------
(* Overage pricing.  Money is counted in units of 10^-7 dollar, the rates  *)
(* of the table in thousandths of a dollar.                                *)

MoneyPerMill == 10000
MoneyPerCent == 100000

(* OVERAGE_RATES; the entries without "per" have no such key *)
OverageRates ==
    [storage_gb      |-> [rate |-> 1500],
     bandwidth_gb    |-> [rate |-> 80],
     database_gb     |-> [rate |-> 3000],
     api_calls       |-> [rate |-> 500, per |-> 10000],
     file_uploads_gb |-> [rate |-> 1500],
     executions      |-> [rate |-> 2000, per |-> 10000],
     emails          |-> [rate |-> 1000, per |-> 1000],
     ai_queries      |-> [rate |-> 15],
     webhooks        |-> [rate |-> 0]]

(* OVERAGE_RATES.get(resource, {"rate": 0}) *)
RateInfo(resource) ==
    IF resource \in DOMAIN OverageRates THEN OverageRates[resource] ELSE [rate |-> 0]

(* rate_info.get("per", 1) *)
PerOf(info) == IF "per" \in DOMAIN info THEN info.per ELSE 1

(* A price that bills every started block of `per` units in full *)
OverageCost_Ceil(resource, quantity) ==
    LET info == RateInfo(resource)
    IN  IF PerOf(info) > 1
        THEN ((quantity + PerOf(info) - 1) \div PerOf(info)) * info.rate * MoneyPerMill
        ELSE quantity * info.rate * MoneyPerMill

(* (quantity / per) * rate when per > 1, else quantity * rate; every per  *)
(* of the table divides MoneyPerMill, so the quotient is exact             *)
OverageCost(resource, quantity) ==
    LET info == RateInfo(resource)
    IN  IF PerOf(info) > 1
        THEN quantity * info.rate * (MoneyPerMill \div PerOf(info))
        ELSE quantity * info.rate * MoneyPerMill

(* round(x, 2): the nearest whole cent; which neighbour a float that lies  *)
(* halfway between two cents goes to depends on its binary value, so both  *)
(* are possible.                                                           *)
Round2(cost) ==
    LET down == (cost \div MoneyPerCent) * MoneyPerCent
        rest == cost % MoneyPerCent
    IN  IF 2 * rest < MoneyPerCent THEN {down}
        ELSE IF 2 * rest > MoneyPerCent THEN {down + MoneyPerCent}
        ELSE {down, down + MoneyPerCent}

Max(a, b) == IF a >= b THEN a ELSE b

(* calculate_overage, given the limit and the usage it read: the possible results *)
CalculateOverageResults(resource, limit, current) ==
    IF limit = 0 \/ Max(0, current - limit) = 0
    THEN {[exceeded_by |-> 0, overage_cost |-> 0, rate |-> 0]}
    ELSE {[exceeded_by |-> current - limit, overage_cost |-> c,
           rate |-> RateInfo(resource).rate]
             : c \in Round2(OverageCost(resource, current - limit))}

(* UsageAlert.validate: usage_percent (as current*100 over limit) and,     *)
(* for Exceeded and Blocked alerts over their limit, overage_amount        *)
AlertValidate(a) ==
    LET pct == IF a.current_usage # 0 /\ a.limit_value # 0 /\ a.limit_value > 0
               THEN <<a.current_usage * 100, a.limit_value>>
               ELSE a.usage_percent
        over == a.alert_type \in {"Exceeded", "Blocked"}
                /\ a.current_usage # 0 /\ a.limit_value # 0
                /\ a.current_usage - a.limit_value > 0
    IN  [a EXCEPT !.usage_percent = pct,
                  !.overage_amount =
                      IF over THEN OverageCost(a.resource_type,
                                               a.current_usage - a.limit_value)
                      ELSE a.overage_amount]

NewAlert(name, resource, type, threshold, current, limit, t) ==
    [name |-> name, resource_type |-> resource, alert_type |-> type,
     threshold_percent |-> threshold, current_usage |-> current, limit_value |-> limit,
     usage_percent |-> <<0, 1>>, overage_amount |-> 0,
     acknowledged |-> 0, acknowledged_at |-> None,
     notification_sent |-> 0, creation |-> t]

(* One evaluation of both calculators on the same resource, limit and usage *)
CalculateOverage ==
    /\ ov.pc = "input"
    /\ \E r \in CalculateOverageResults(ov.resource, ov.limit, ov.current) :
           ov' = [ov EXCEPT !.pc = "priced", !.metering = r,
                     !.alert = AlertValidate(NewAlert(1, ov.resource, ov.alert_type, 100,
                                                      ov.current, ov.limit, now))]
    /\ ret' = [op |-> "calculate_overage"]
    /\ UNCHANGED <<now, ticks, settings, records, nextName, queue, reported, deleted,
                   licVars, alertVars, req, signatures, jobs>>

(* Limits and usages offered to the calculators *)
OverageLimits == {0, 10, 1000}
SmallUsages == {0, 5, 10, 11, 15, 60}
LargeUsages == {1001, 1100, 6000, 15000}
OverageAlertTypes == {"Warning", "Exceeded", "Blocked"}

(* The usages of a resource priced per block reach a whole block and more; *)
(* those of a resource priced per unit stay where the products fit TLC's   *)
(* integers.                                                               *)
OverageInputs ==
    {[pc |-> "input", resource |-> res, limit |-> l, current |-> c, alert_type |-> ty,
      metering |-> [exceeded_by |-> 0, overage_cost |-> 0, rate |-> 0],
      alert |-> NewAlert(1, res, ty, 100, c, l, 0)]
        : res \in ResourceType, l \in OverageLimits, ty \in OverageAlertTypes,
          c \in SmallUsages \cup LargeUsages}

InitOverage ==
    /\ InitStore
    /\ req = [pc |-> "idle"]
    /\ ov \in {i \in OverageInputs :
                  PerOf(RateInfo(i.resource)) > 1 \/ i.current \in SmallUsages}

NextOverage == CalculateOverage

SpecOverage == InitOverage /\ [][NextOverage]_vars

----------------------------------------------------------------------------
(* Usage Alert *)

MaxAlerts == 2

(* A search that looks for acknowledged alerts instead of open ones *)
ExistingAlerts_Acknowledged(resource, type) ==
    {a \in alerts : /\ a.resource_type = resource
                    /\ a.alert_type = type
                    /\ a.acknowledged = 1
                    /\ a.creation >= Midnight(Today(now))}

(* A search that forgets the acknowledged flag *)
ExistingAlerts_AnyState(resource, type) ==
    {a \in alerts : /\ a.resource_type = resource
                    /\ a.alert_type = type
                    /\ a.creation >= Midnight(Today(now))}

(* filters={resource_type, alert_type, "acknowledged": 0, "creation": [">=", today()]} *)
ExistingAlerts(resource, type) ==
    {a \in alerts : /\ a.resource_type = resource
                    /\ a.alert_type = type
                    /\ a.acknowledged = 0
                    /\ a.creation >= Midnight(Today(now))}

(* A send_notification that never looks at notification_sent *)
WantsMail_Always(a) ==
    /\ settings.send_alert_emails # 0
    /\ settings.alert_email # ""

(* send_notification: whether this call hands a mail to frappe.sendmail *)
WantsMail(a) ==
    /\ settings.send_alert_emails # 0
    /\ settings.alert_email # ""
    /\ a.notification_sent = 0

(* send_notification: the alert afterwards; the flag is set only when      *)
(* frappe.sendmail returned                                                 *)
AfterNotification(a, mailOk) ==
    IF WantsMail(a) /\ mailOk
    THEN AlertValidate([a EXCEPT !.notification_sent = 1])
    ELSE a

(* The emails sent so far for the alert called name *)
MailsFor(name) == IF name \in DOMAIN emails THEN emails[name] ELSE 0

(* send_notification: the outbox afterwards; frappe.sendmail sends the     *)
(* mail unless it raises                                                   *)
OutboxAfterNotification(a, mailOk) ==
    IF WantsMail(a) /\ mailOk
    THEN [n \in DOMAIN emails \cup {a.name} |-> IF n = a.name THEN MailsFor(n) + 1
                                                ELSE emails[n]]
    ELSE emails

(* UsageAlert.send_notification, called on a stored alert *)
SendNotification(a, mailOk) ==
    /\ a \in alerts
    /\ alerts' = (alerts \ {a}) \cup {AfterNotification(a, mailOk)}
    /\ emails' = OutboxAfterNotification(a, mailOk)
    /\ ret' = [op |-> "send_notification", name |-> a.name,
               sent |-> WantsMail(a) /\ mailOk]
    /\ UNCHANGED <<now, ticks, settings, records, nextName, queue, reported, deleted,
                   nextAlert, licVars, callVars>>

(* create_alert: update today's open alert of the pair, or insert a new    *)
(* one and, when asked, notify                                             *)
CreateAlert(resource, type, current, limit, sendEmail, mailOk) ==
    LET threshold == IF type = "Warning" THEN settings.warning_threshold
                     ELSE settings.hard_limit_threshold
        existing == ExistingAlerts(resource, type)
    IN  /\ IF existing # {}
           THEN \E a \in existing :
                   /\ alerts' = (alerts \ {a})
                                   \cup {AlertValidate([a EXCEPT !.current_usage = current])}
                   /\ ret' = [op |-> "create_alert", name |-> a.name, inserted |-> FALSE,
                              send_email |-> sendEmail,
                              resource_type |-> resource, alert_type |-> type,
                              current_usage |-> current]
                   /\ UNCHANGED <<nextAlert, emails>>
           ELSE LET fresh == AlertValidate(NewAlert(nextAlert, resource, type, threshold,
                                                    current, limit, now))
                IN  /\ nextAlert <= MaxAlerts
                    /\ alerts' = alerts \cup
                                   {IF sendEmail THEN AfterNotification(fresh, mailOk)
                                    ELSE fresh}
                    /\ nextAlert' = nextAlert + 1
                    /\ emails' = IF sendEmail THEN OutboxAfterNotification(fresh, mailOk)
                                 ELSE emails
                    /\ ret' = [op |-> "create_alert", name |-> fresh.name,
                               inserted |-> TRUE, send_email |-> sendEmail,
                               resource_type |-> resource, alert_type |-> type,
                               current_usage |-> current]
        /\ UNCHANGED <<now, ticks, settings, records, nextName, queue, reported, deleted,
                       licVars, callVars>>

(* UsageAlert.acknowledge, as acknowledge_alert calls it on a stored alert *)
Acknowledge(a) ==
    /\ a \in alerts
    /\ alerts' = (alerts \ {a})
                    \cup {AlertValidate([a EXCEPT !.acknowledged = 1,
                                                  !.acknowledged_at = now])}
    /\ ret' = [op |-> "acknowledge", name |-> a.name,
               resource_type |-> a.resource_type, alert_type |-> a.alert_type]
    /\ UNCHANGED <<now, ticks, settings, records, nextName, queue, reported, deleted,
                   nextAlert, emails, licVars, callVars>>

(* Alerts: create_alert and acknowledge calls, one at a time, over days *)

AlertResources == {"api_calls"}
AlertTypes == {"Warning", "Exceeded"}
AlertUsages == {8, 12}
AlertLimits == {10}
AlertEmails == {"ops@example.com"}
AlertTickSteps == {1440}

InitAlerts == InitMeter

NextAlerts ==
    \/ \E to \in AlertEmails :
          SaveSettings([settings EXCEPT !.send_alert_emails = 1, !.alert_email = to])
    \/ \E res \in AlertResources, ty \in AlertTypes, c \in AlertUsages,
          l \in AlertLimits, se \in BOOLEAN, ok \in BOOLEAN :
          CreateAlert(res, ty, c, l, se, ok)
    \/ \E a \in alerts : Acknowledge(a)
    \/ \E step \in AlertTickSteps : Tick(step)

SpecAlerts == InitAlerts /\ [][NextAlerts]_vars

(* Mail: alerts opened and updated by create_alert, and send_notification  *)
(* called on them again, with alert emails switched on at some point       *)

InitMail == InitMeter

NextMail ==
    \/ \E to \in AlertEmails :
          SaveSettings([settings EXCEPT !.send_alert_emails = 1, !.alert_email = to])
    \/ \E res \in AlertResources, ty \in AlertTypes, c \in AlertUsages,
          l \in AlertLimits, se \in BOOLEAN, ok \in BOOLEAN :
          CreateAlert(res, ty, c, l, se, ok)
    \/ \E a \in alerts, ok \in BOOLEAN : SendNotification(a, ok)
    \/ \E step \in AlertTickSteps : Tick(step)

SpecMail == InitMail /\ [][NextMail]_vars

----------------------------------------------------------------------------
(* CentralAPIClient._make_request *)

(* retry_count: int = 3 *)
RetryCount == 3

(* What one requests.post can end in: a response with a status and a body  *)
(* that parses as JSON or not, or one of the requests exceptions           *)
Statuses == {200, 201, 204, 401, 403, 404, 500}

Outcomes ==
    {[kind |-> "response", status |-> st, json |-> j] : st \in Statuses, j \in BOOLEAN}
        \cup {[kind |-> k, status |-> 0, json |-> FALSE]
                 : k \in {"timeout", "connection", "request_error"}}

(* A signature that also covers the time of the call *)
GenerateSignature_Timestamped(secret, payload) ==
    IF secret = "" THEN <<>> ELSE <<"hmac_sha256", secret, payload, now>>

(* _generate_signature: the empty string (here the empty sequence) without *)
(* a secret, else the hex digest of the HMAC-SHA256 of the payload under   *)
(* the secret                                                              *)
GenerateSignature(secret, payload) ==
    IF secret = "" THEN <<>> ELSE <<"hmac_sha256", secret, payload>>

(* _generate_signature called on a client with the given secret *)
GenerateSignatureCall(secret, payload) ==
    /\ signatures' = signatures \cup
                        {[secret |-> secret, payload |-> payload,
                          signature |-> GenerateSignature(secret, payload)]}
    /\ ret' = [op |-> "generate_signature", secret |-> secret, payload |-> payload,
               signature |-> GenerateSignature(secret, payload)]
    /\ UNCHANGED <<now, ticks, settings, records, nextName, queue, reported, deleted,
                   licVars, alertVars, req, ov, jobs>>

(* The headers of the request; the payload is json.dumps(data, sort_keys=True) *)
Headers(apiKey, secret, data) ==
    [name \in {"Content-Type", "X-Api-Key"}
        |-> IF name = "X-Api-Key" THEN <<apiKey>> ELSE <<"application/json">>]
    @@ (IF secret # "" /\ data # ""
        THEN [name \in {"X-Api-Signature", "X-Api-Timestamp"}
                 |-> IF name = "X-Api-Signature"
                     THEN <<GenerateSignature(secret, data)>> ELSE <<now * 60>>]
        ELSE <<>>)

(* A status test that takes every 2xx answer for a success *)
IsSuccessStatus_Any2xx(status) == status >= 200 /\ status <= 299

(* response.status_code == 200 *)
IsSuccessStatus(status) == status = 200

(* A client that treats 404 like a server error *)
ReturnsAtOnce_NotFoundRetried(o) ==
    /\ o.kind = "response"
    /\ \/ o.status = 200 /\ o.json
       \/ o.status \in {401, 403}

(* The answers that end the call at once: 200 with a body that parses, and *)
(* 401, 403, 404                                                           *)
ReturnsAtOnce(o) ==
    /\ o.kind = "response"
    /\ \/ IsSuccessStatus(o.status) /\ o.json
       \/ o.status \in {401, 403, 404}

(* The dict the call returns on such an answer *)
ImmediateResult(o) ==
    IF IsSuccessStatus(o.status) THEN [success |-> TRUE, message |-> "ok"]
    ELSE [success |-> FALSE,
          message |-> IF o.status = 401 THEN "Authentication failed"
                      ELSE IF o.status = 403 THEN "Access denied"
                      ELSE "Endpoint not found"]

(* f"HTTP {response.status_code}: {response.text}" *)
HttpError ==
    [st \in Statuses |->
        IF st = 201 THEN "HTTP 201" ELSE IF st = 204 THEN "HTTP 204"
        ELSE IF st = 500 THEN "HTTP 500" ELSE "HTTP"]

(* last_error after an attempt that did not return *)
LastError(o) ==
    IF o.kind = "timeout" THEN "Request timed out"
    ELSE IF o.kind = "connection" THEN "Connection failed"
    ELSE IF o.kind = "request_error" THEN "request error"
    ELSE IF IsSuccessStatus(o.status) THEN "Invalid JSON response"
    ELSE HttpError[o.status]

(* time.sleep(2 ** attempt) *)
Backoff(attempt) == 2 ^ attempt

(* A client that gives up without a log entry *)
LogFinalError_Silent(entries) == entries

(* frappe.log_error after the loop: one more entry in the error log *)
LogFinalError(entries) == entries + 1

(* The call starts: url and headers are built, no request is sent yet *)
StartRequest(apiKey, secret, data) ==
    /\ req.pc \in {"idle", "returned"}
    /\ req' = [pc |-> "running", attempt |-> 0, sent |-> 0, slept |-> <<>>,
               api_key |-> apiKey, api_secret |-> secret, data |-> data,
               headers |-> Headers(apiKey, secret, data),
               last_error |-> "", errors |-> <<>>, logged |-> 0,
               last |-> [kind |-> "none", status |-> 0, json |-> FALSE],
               result |-> [success |-> FALSE, message |-> ""]]
    /\ signatures' = IF secret # "" /\ data # ""
                     THEN signatures \cup
                            {[secret |-> secret, payload |-> data,
                              signature |-> GenerateSignature(secret, data)]}
                     ELSE signatures
    /\ ret' = [op |-> "make_request"]
    /\ UNCHANGED <<now, ticks, settings, records, nextName, queue, reported, deleted,
                   licVars, alertVars, ov, jobs>>

(* One pass of `for attempt in range(retry_count)`: send, then return,     *)
(* or note the error and sleep before the next pass, or, after the last    *)
(* pass, log the error and return it; errors keeps the value last_error    *)
(* was given by each failed pass                                           *)
Attempt(o) ==
    /\ req.pc = "running"
    /\ req.attempt < RetryCount
    /\ IF ReturnsAtOnce(o)
       THEN req' = [req EXCEPT !.pc = "returned", !.sent = @ + 1, !.last = o,
                               !.result = ImmediateResult(o)]
       ELSE IF req.attempt < RetryCount - 1
       THEN req' = [req EXCEPT !.attempt = @ + 1, !.sent = @ + 1, !.last = o,
                               !.last_error = LastError(o),
                               !.errors = Append(@, LastError(o)),
                               !.slept = Append(@, Backoff(req.attempt))]
       ELSE req' = [req EXCEPT !.pc = "returned", !.attempt = @ + 1, !.sent = @ + 1,
                               !.last = o, !.last_error = LastError(o),
                               !.errors = Append(@, LastError(o)),
                               !.logged = LogFinalError(@),
                               !.result = [success |-> FALSE, message |-> LastError(o)]]
    /\ ret' = [op |-> "attempt"]
    /\ UNCHANGED <<now, ticks, settings, records, nextName, queue, reported, deleted,
                   licVars, alertVars, ov, signatures, jobs>>

(* Requests: calls of _make_request against every sequence of answers *)

ApiKeys == {"", "key"}
ApiSecrets == {"", "secret"}
(* The payloads the client methods post: json.dumps(data, sort_keys=True)  *)
(* of their dicts, none of them empty                                      *)
Payloads == {"{license_key}", "{license_key, usage_data}"}

(* Clock advance offered between calls: one minute *)
RequestTickSteps == {1}

InitRequests == InitMeter

NextRequests ==
    \/ \E k \in ApiKeys, sec \in ApiSecrets, d \in Payloads : StartRequest(k, sec, d)
    \/ \E o \in Outcomes : Attempt(o)

SpecRequests == InitRequests /\ [][NextRequests]_vars

(* Signing: calls of _make_request and of _generate_signature over time,   *)
(* against a server that answers 200 or 500                                *)

SigningOutcomes == {o \in Outcomes : o.kind = "response" /\ o.status \in {200, 500} /\ o.json}

InitSigning == InitMeter

NextSigning ==
    \/ \E k \in ApiKeys, sec \in ApiSecrets, d \in Payloads : StartRequest(k, sec, d)
    \/ \E o \in SigningOutcomes : Attempt(o)
    \/ \E sec \in ApiSecrets, d \in Payloads : GenerateSignatureCall(sec, d)
    \/ \E step \in RequestTickSteps : Tick(step)

SpecSigning == InitSigning /\ [][NextSigning]_vars

----------------------------------------------------------------------------
(* get_license and sync_license *)

(* get_license, called on its own: the dict it returns (none: the empty    *)
(* set) and the cache entry it leaves                                      *)
GetLicenseCall ==
    /\ ret' = [op |-> "get_license", license |-> GetLicense]
    /\ licenseData' = CacheAfterGetLicense
    /\ UNCHANGED <<now, ticks, settings, records, nextName, queue, reported, deleted,
                   license, alertVars, callVars>>

(* The fields sync_license copies from the central answer; resource_limits *)
(* is stored as json.dumps of the map, which validate then completes       *)
LicenseFromCentral(result) ==
    [tier |-> result.tier, status |-> result.status,
     expiry_date |-> result.expiry_date,
     resource_limits |-> [res \in ResourceType |->
                             LimitOf(result.resource_limits, res)],
     enabled_features |-> result.enabled_features,
     enabled_apps |-> result.enabled_apps]

(* Where a call inside the try block of sync_license raises: nowhere, in  *)
(* get_license_details, in license_doc.save() before the row is written,   *)
(* or in frappe.cache().delete_key after save() and frappe.db.commit()     *)
SyncRaises == {"none", "fetch", "save", "cache"}

(* sync_license: no key, no answer (<<>>), or the license is stored from   *)
(* the answer; save() runs on_update, which deletes the key                *)
(* "simbotix_license_cache", and so does sync_license after the commit;    *)
(* the entry "simbotix_license_data" stays.  An exception anywhere in the  *)
(* try block is logged and answered with success False.                    *)
SyncLicense(result, raises) ==
    /\ IF settings.license_key = ""
       THEN /\ ret' = [op |-> "sync_license", success |-> FALSE, raised |-> "none"]
            /\ UNCHANGED license
       ELSE IF raises = "fetch"
       THEN /\ ret' = [op |-> "sync_license", success |-> FALSE, raised |-> raises]
            /\ UNCHANGED license
       ELSE IF result = <<>>
       THEN /\ ret' = [op |-> "sync_license", success |-> FALSE, raised |-> "none"]
            /\ UNCHANGED license
       ELSE IF raises = "save"
       THEN /\ ret' = [op |-> "sync_license", success |-> FALSE, raised |-> raises]
            /\ UNCHANGED license
       ELSE /\ ret' = [op |-> "sync_license", success |-> raises = "none",
                       raised |-> raises]
            /\ license' = {LicenseFromCentral(result)}
    /\ UNCHANGED <<now, ticks, settings, records, nextName, queue, reported, deleted,
                   licenseData, alertVars, callVars>>

(* Licenses: App License edits, syncs and get_license calls over time *)

Tiers == {"Pioneer", "Builder"}
LicenseStatuses == {"Active", "Suspended"}
LicenseLimits == {[api_calls |-> 10], [api_calls |-> 20]}

LicenseInputs ==
    {[tier |-> t, status |-> st, expiry_date |-> None, resource_limits |-> l,
      enabled_features |-> {}, enabled_apps |-> {}]
        : t \in Tiers, st \in LicenseStatuses, l \in LicenseLimits}

(* Clock advances offered: one minute and the five minutes of the default TTL *)
LicenseTickSteps == {1, 5}

InitLicense == InitMeter

NextLicense ==
    \/ \E k \in LicenseKeys, c \in {0, 1} :
          SaveSettings([settings EXCEPT !.license_key = k, !.use_redis_cache = c])
    \/ \E doc \in LicenseInputs : SaveLicense(doc)
    \/ \E result \in LicenseInputs \cup {<<>>}, raises \in SyncRaises :
          SyncLicense(result, raises)
    \/ GetLicenseCall
    \/ \E step \in LicenseTickSteps : Tick(step)

SpecLicense == InitLicense /\ [][NextLicense]_vars

----------------------------------------------------------------------------
(* requires_quota *)

(* A wrapper that refuses on "exceeded" whatever block_on_exceeded says *)
QuotaBlocked_Always(status, s) == status = "exceeded"

(* if status == "exceeded": if settings.block_on_exceeded: raise *)
QuotaBlocked(status, s) == status = "exceeded" /\ s.block_on_exceeded # 0

(* One call of a function wrapped by requires_quota(resource, quantity):   *)
(* check_limits, the refusal or the wrapped function, and record_usage     *)
(* once the function has returned; funcRaises says the function raises.    *)
RequiresQuota(resource, quantity, funcRaises, enqueueOk, insertOk) ==
    LET status == LimitStatus(settings, GetResourceLimit(resource),
                              GetCurrentUsage(resource))
        call == [op |-> "requires_quota", resource |-> resource,
                 quantity |-> quantity, status |-> status]
    IN  /\ licenseData' = CacheAfterGetLicense
        /\ IF QuotaBlocked(status, settings)
           THEN /\ ret' = call @@ [raised |-> "ValidationError", executed |-> 0,
                                   record_usage |-> <<>>]
                /\ UNCHANGED <<records, nextName, queue>>
           ELSE IF funcRaises
           THEN /\ ret' = call @@ [raised |-> "wrapped", executed |-> 1,
                                   record_usage |-> <<>>]
                /\ UNCHANGED <<records, nextName, queue>>
           ELSE /\ ret' = call @@ [raised |-> "none", executed |-> 1,
                                   record_usage |-> << <<resource, quantity>> >>]
                /\ RecordUsageStore(resource, quantity, enqueueOk, insertOk)
        /\ UNCHANGED <<now, ticks, settings, reported, deleted, license,
                       alertVars, callVars>>

(* Quota: wrapped calls against a license with api_calls limited to 2 *)

QuotaLimits == {[api_calls |-> 0], [api_calls |-> 2]}
QuotaQuantities == {0, 1}
BlockInputs == {0, 1}

InitQuota == InitMeter

NextQuota ==
    \/ \E b \in BlockInputs : SaveSettings([settings EXCEPT !.block_on_exceeded = b])
    \/ \E l \in QuotaLimits :
          SaveLicense([tier |-> "Pioneer", status |-> "Active", expiry_date |-> None,
                       resource_limits |-> l,
                       enabled_features |-> {}, enabled_apps |-> {}])
    \/ \E q \in QuotaQuantities, f \in BOOLEAN, e \in BOOLEAN, i \in BOOLEAN :
          RequiresQuota("api_calls", q, f, e, i)
    \/ \E i \in BOOLEAN : RunJob(i)
    \/ \E step \in LicenseTickSteps : Tick(step)

SpecQuota == InitQuota /\ [][NextQuota]_vars

----------------------------------------------------------------------------
(* requires_license *)

(* A check that forgets the app once a feature is named *)
LicenseRefusal_FeatureOnly(lic, feature, app) ==
    IF lic = {} THEN "no_license"
    ELSE LET l == CHOOSE x \in lic : TRUE
         IN  IF ~ l.is_valid THEN "not_active"
             ELSE IF feature # "" /\ feature \notin l.enabled_features THEN "feature"
             ELSE IF feature = "" /\ app # "" /\ app \notin l.enabled_apps THEN "app"
             ELSE "none"

(* _validate_license_requirement on the dict get_license returned: which   *)
(* PermissionError it raises, "none" when it returns.  A feature or app    *)
(* that is not given is the empty string.                                  *)
LicenseRefusal(lic, feature, app) ==
    IF lic = {} THEN "no_license"
    ELSE LET l == CHOOSE x \in lic : TRUE
         IN  IF ~ l.is_valid THEN "not_active"
             ELSE IF feature # "" /\ feature \notin l.enabled_features THEN "feature"
             ELSE IF app # "" /\ app \notin l.enabled_apps THEN "app"
             ELSE "none"

(* One call of a function wrapped by requires_license(feature, app) *)
RequiresLicense(feature, app) ==
    LET refusal == LicenseRefusal(GetLicense, feature, app)
    IN  /\ ret' = [op |-> "requires_license", feature |-> feature, app |-> app,
                   license |-> GetLicense, refusal |-> refusal,
                   raised |-> IF refusal = "none" THEN "none" ELSE "PermissionError",
                   executed |-> IF refusal = "none" THEN 1 ELSE 0]
        /\ licenseData' = CacheAfterGetLicense
        /\ UNCHANGED <<now, ticks, settings, records, nextName, queue, reported,
                       deleted, license, alertVars, callVars>>

(* AppLicense.is_valid, called on the stored document *)
IsValidCall ==
    /\ license # {}
    /\ ret' = [op |-> "is_valid", doc |-> CHOOSE doc \in license : TRUE,
               result |-> IsValid(CHOOSE doc \in license : TRUE, now)]
    /\ UNCHANGED <<now, ticks, settings, records, nextName, queue, reported, deleted,
                   licVars, alertVars, callVars>>

(* Gate: licenses of every status, with and without expiry date, feature   *)
(* and app, over three days                                                *)

GateStatuses == {"Active", "Trial", "Suspended", "Expired"}
ExpiryInputs == {None, 0, 1}
FeatureSets == {{}, {"webhooks"}}
AppSets == {{}, {"flowz"}}
FeatureInputs == {"", "webhooks"}
AppInputs == {"", "flowz"}
GateTickSteps == {1440}

GateLicenses ==
    {[tier |-> "Pioneer", status |-> st, expiry_date |-> e, resource_limits |-> <<>>,
      enabled_features |-> f, enabled_apps |-> a]
        : st \in GateStatuses, e \in ExpiryInputs, f \in FeatureSets, a \in AppSets}

InitGate == InitMeter

NextGate ==
    \/ \E c \in {0, 1} : SaveSettings([settings EXCEPT !.use_redis_cache = c])
    \/ \E doc \in GateLicenses : SaveLicense(doc)
    \/ \E f \in FeatureInputs, a \in AppInputs : RequiresLicense(f, a)
    \/ IsValidCall
    \/ \E step \in GateTickSteps : Tick(step)

SpecGate == InitGate /\ [][NextGate]_vars

----------------------------------------------------------------------------
(* The scheduler jobs step by step.  frappe.db.set_value writes inside the *)
(* run's open transaction; aggregate_usage and sync_usage_to_central call  *)
(* frappe.db.commit() once, after their marking loop.  `records` is the    *)
(* committed table; a run's `written` are its updates not yet committed.   *)

(* The order of aggregate_usage's marking loop: the groups in the order    *)
(* their first row was selected, the rows of a group in selection order    *)
RECURSIVE GroupOrder(_)
GroupOrder(s) ==
    IF s = <<>> THEN <<>>
    ELSE LET InGroup(x) == SameGroup(s[1], x)
             Other(x) == ~ SameGroup(s[1], x)
         IN  SelectSeq(s, InGroup) \o GroupOrder(SelectSeq(s, Other))

NamesOf(s) == [i \in 1..Len(s) |-> s[i].name]

(* One set_value of a run, applied to the row as it is stored *)
ApplyWrite(kind, r, t) ==
    IF kind = "aggregate" THEN AggregateMark(r, t) ELSE SyncMark(r, t)

(* The table after a run's transaction is committed *)
Committed(run) ==
    {IF \E w \in run.written : w.name = r.name
     THEN ApplyWrite(run.pc, r, (CHOOSE w \in run.written : w.name = r.name).at)
     ELSE r : r \in records}

(* aggregate_usage up to its marking loop: select and group *)
AggregateBegin(i) ==
    /\ jobs[i].pc = "idle"
    /\ jobs' = [jobs EXCEPT ![i] =
                   [pc |-> "aggregate",
                    todo |-> NamesOf(GroupOrder(OrderBy({r \in records : AggregateFilter(r)},
                                                        "timestamp"))),
                    written |-> {}]]
    /\ ret' = [op |-> "begin", run |-> i, kind |-> "aggregate"]
    /\ UNCHANGED <<now, ticks, settings, records, nextName, queue, reported, deleted,
                   licVars, alertVars, req, ov, signatures>>

(* sync_usage_to_central up to its marking loop: the early returns, the   *)
(* selection and the call of report_usage                                  *)
SyncBegin(i, answer) ==
    /\ jobs[i].pc = "idle"
    /\ IF settings.license_key = ""
       THEN /\ ret' = [op |-> "sync_usage", success |-> FALSE, synced_count |-> 0]
            /\ UNCHANGED <<jobs, reported>>
       ELSE IF SyncBatch = <<>>
       THEN /\ ret' = [op |-> "sync_usage", success |-> TRUE, synced_count |-> 0]
            /\ UNCHANGED <<jobs, reported>>
       ELSE IF answer # "success"
       THEN /\ ret' = [op |-> "sync_usage", success |-> FALSE, synced_count |-> 0]
            /\ UNCHANGED <<jobs, reported>>
       ELSE /\ reported' = reported \cup Names(Range(SyncBatch))
            /\ jobs' = [jobs EXCEPT ![i] =
                           [pc |-> "sync", todo |-> NamesOf(SyncBatch), written |-> {}]]
            /\ ret' = [op |-> "begin", run |-> i, kind |-> "sync"]
    /\ UNCHANGED <<now, ticks, settings, records, nextName, queue, deleted,
                   licVars, alertVars, req, ov, signatures>>

(* One frappe.db.set_value of the marking loop *)
MarkStep(i) ==
    /\ jobs[i].pc # "idle"
    /\ jobs[i].todo # <<>>
    /\ jobs' = [jobs EXCEPT ![i].todo = Tail(@),
                            ![i].written = {w \in @ : w.name # Head(jobs[i].todo)}
                                           \cup {[name |-> Head(jobs[i].todo), at |-> now]}]
    /\ ret' = [op |-> "set_value", run |-> i, kind |-> jobs[i].pc,
               name |-> Head(jobs[i].todo)]
    /\ UNCHANGED <<now, ticks, settings, records, nextName, queue, reported, deleted,
                   licVars, alertVars, req, ov, signatures>>

(* frappe.db.commit() after the marking loop, and the return *)
CommitRun(i) ==
    /\ jobs[i].pc # "idle"
    /\ jobs[i].todo = <<>>
    /\ records' = Committed(jobs[i])
    /\ settings' = IF jobs[i].pc = "sync"
                   THEN [settings EXCEPT !.last_usage_sync = now] ELSE settings
    /\ jobs' = [jobs EXCEPT ![i] = IdleRun]
    /\ ret' = [op |-> "commit", run |-> i, kind |-> jobs[i].pc,
               written |-> {w.name : w \in jobs[i].written}]
    /\ UNCHANGED <<now, ticks, nextName, queue, reported, deleted,
                   licVars, alertVars, req, ov, signatures>>

(* The worker dies inside the marking loop or before the commit: the open  *)
(* transaction is never committed                                          *)
CrashRun(i) ==
    /\ jobs[i].pc # "idle"
    /\ jobs[i].written # {}
    /\ jobs' = [jobs EXCEPT ![i] = IdleRun]
    /\ ret' = [op |-> "crash", run |-> i, kind |-> jobs[i].pc,
               written |-> {w.name : w \in jobs[i].written},
               left |-> Len(jobs[i].todo)]
    /\ UNCHANGED <<now, ticks, settings, records, nextName, queue, reported, deleted,
                   licVars, alertVars, req, ov, signatures>>

RunTickSteps == {60}

RunAnswers == {"success", "failed"}

InitRuns ==
    /\ InitStore
    /\ req = [pc |-> "idle"]
    /\ ov = [pc |-> "idle"]

NextRuns ==
    \/ SaveSettings([settings EXCEPT !.license_key = "KEY"])
    \/ \E res \in MeterResources : RecordUsage(res, 1, FALSE, TRUE)
    \/ \E i \in Runs : AggregateBegin(i)
    \/ \E i \in Runs, a \in RunAnswers : SyncBegin(i, a)
    \/ \E i \in Runs : MarkStep(i)
    \/ \E i \in Runs : CommitRun(i)
    \/ \E i \in Runs : CrashRun(i)
    \/ \E step \in RunTickSteps : Tick(step)

SpecRuns == InitRuns /\ [][NextRuns]_vars

----------------------------------------------------------------------------
(* The hourly groups of aggregate_usage *)

(* The dict `aggregated` built from the selection: one entry per key       *)
(* f"{resource}_{hour}" with the summed quantity and the names of its rows *)
AggregateGroups(sel) ==
    {[resource_type |-> r.resource_type,
      hour |-> HourOf(r.timestamp),
      quantity |-> SumQuantity({x \in sel : SameGroup(r, x)}),
      records |-> Names({x \in sel : SameGroup(r, x)})] : r \in sel}

PeriodResources == {"api_calls", "emails"}

PeriodQuantities == {1, 2}

PeriodTickSteps == {30, 60}

InitPeriods ==
    /\ InitStore
    /\ req = [pc |-> "idle"]
    /\ ov = [pc |-> "idle"]

NextPeriods ==
    \/ \E res \in PeriodResources, q \in PeriodQuantities : RecordUsage(res, q, FALSE, TRUE)
    \/ \E F \in SUBSET Names(records) : AggregateUsage(F)
    \/ \E step \in PeriodTickSteps : Tick(step)

SpecPeriods == InitPeriods /\ [][NextPeriods]_vars

----------------------------------------------------------------------------
(* Progress of the hourly jobs: records keep arriving, the backlog is     *)
(* larger than one batch, the scheduler keeps starting aggregate_usage    *)
(* and sync_usage_to_central, and the central service answers a run with  *)
(* success again and again.                                               *)

LiveTickSteps == {60}

LiveAnswers == {"success", "failed"}

(* sync_usage_to_central with the scaled batch limit *)
SyncLive(answer, F) == SyncUsageOf(SyncBatchOf(SmallBatch), answer, F)

InitLive ==
    /\ InitStore
    /\ req = [pc |-> "idle"]
    /\ ov = [pc |-> "idle"]

(* The license key is configured before the first run *)
ConfigureKey ==
    /\ settings.license_key = ""
    /\ SaveSettings([settings EXCEPT !.license_key = "KEY"])

NextLive ==
    \/ ConfigureKey
    \/ \E res \in MeterResources : RecordUsage(res, 1, FALSE, TRUE)
    \/ \E F \in SUBSET Names(records) : AggregateUsage(F)
    \/ \E a \in LiveAnswers, F \in SUBSET Names(records) : SyncLive(a, F)
    \/ \E step \in LiveTickSteps : Tick(step)

(* The scheduler's hourly events: a run of each job in which no update    *)
(* fails keeps happening, the key gets configured, and report_usage       *)
(* answers such a run with success                                        *)
SpecLive ==
    /\ InitLive
    /\ [][NextLive]_vars
    /\ WF_vars(ConfigureKey)
    /\ WF_vars(AggregateUsage({}))
    /\ WF_vars(SyncLive("success", {}))

----------------------------------------------------------------------------
(* check_all_limits *)

(* The order in which the limit map is walked; only the names given to    *)
(* new alerts depend on it                                                 *)
ResourceOrder ==
    <<"storage_gb", "bandwidth_gb", "database_gb", "api_calls", "file_uploads_gb",
      "executions", "emails", "ai_queries", "webhooks">>

(* A test that asks for the warning threshold before the hard limit *)
AlertKind_WarningFirst(s, limit, current) ==
    IF limit = 0 THEN "none"
    ELSE IF PercentAtLeast(current, limit, s.warning_threshold) THEN "Warning"
    ELSE IF PercentAtLeast(current, limit, s.hard_limit_threshold) THEN "Exceeded"
    ELSE "none"

(* The body of the loop: which alert, if any, one resource gets *)
AlertKind(s, limit, current) ==
    IF limit = 0 THEN "none"
    ELSE IF PercentAtLeast(current, limit, s.hard_limit_threshold) THEN "Exceeded"
    ELSE IF PercentAtLeast(current, limit, s.warning_threshold) THEN "Warning"
    ELSE "none"

(* create_alert(resource, type, current, limit) with send_email=True, on   *)
(* the alert table st.alerts, the name counter and the outbox              *)
CreateAlertIn(st, resource, type, current, limit, mailOk) ==
    LET threshold == IF type = "Warning" THEN settings.warning_threshold
                     ELSE settings.hard_limit_threshold
        existing == {a \in st.alerts : /\ a.resource_type = resource
                                       /\ a.alert_type = type
                                       /\ a.acknowledged = 0
                                       /\ a.creation >= Midnight(Today(now))}
        fresh == AlertValidate(NewAlert(st.nextAlert, resource, type, threshold,
                                        current, limit, now))
    IN  IF existing # {}
        THEN LET a == CHOOSE x \in existing : TRUE
             IN  [st EXCEPT !.alerts = (@ \ {a})
                                \cup {AlertValidate([a EXCEPT !.current_usage = current])}]
        ELSE [alerts |-> st.alerts \cup {AfterNotification(fresh, mailOk)},
              nextAlert |-> st.nextAlert + 1,
              emails |-> IF WantsMail(fresh) /\ mailOk
                         THEN [n \in DOMAIN st.emails \cup {fresh.name} |->
                                  IF n = fresh.name THEN 1 ELSE st.emails[n]]
                         ELSE st.emails,
              created |-> st.created, checked |-> st.checked]

(* The loop over limits.items(), from position i of the walk *)
RECURSIVE CheckAllFrom(_, _, _, _)
CheckAllFrom(st, limits, i, mailOk) ==
    IF i > Len(ResourceOrder) THEN st
    ELSE LET res == ResourceOrder[i]
             kind == IF res \in DOMAIN limits
                     THEN AlertKind(settings, limits[res], GetCurrentUsage(res))
                     ELSE "none"
             seen == IF res \in DOMAIN limits THEN [st EXCEPT !.checked = @ + 1] ELSE st
         IN  CheckAllFrom(IF kind = "none" THEN seen
                          ELSE [CreateAlertIn(seen, res, kind, GetCurrentUsage(res),
                                              limits[res], mailOk)
                                   EXCEPT !.created = @ + 1],
                          limits, i + 1, mailOk)

(* The pairs (resource, alert type) a run calls create_alert for *)
AlertCalls(limits) ==
    {<<res, AlertKind(settings, limits[res], GetCurrentUsage(res))>> :
        res \in {r \in DOMAIN limits :
                    AlertKind(settings, limits[r], GetCurrentUsage(r)) # "none"}}

(* check_all_limits: nothing without a license; else walk the limit map    *)
CheckAllLimits(mailOk) ==
    /\ licenseData' = CacheAfterGetLicense
    /\ IF GetLicense = {}
       THEN /\ ret' = [op |-> "check_all_limits", licensed |-> FALSE,
                       alerts_created |-> 0, resources_checked |-> 0, calls |-> {}]
            /\ UNCHANGED alertVars
       ELSE LET limits == (CHOOSE l \in GetLicense : TRUE).resource_limits
                after == CheckAllFrom([alerts |-> alerts, nextAlert |-> nextAlert,
                                       emails |-> emails, created |-> 0, checked |-> 0],
                                      limits, 1, mailOk)
            IN  /\ after.nextAlert <= MaxAlerts + 1
                /\ alerts' = after.alerts
                /\ nextAlert' = after.nextAlert
                /\ emails' = after.emails
                /\ ret' = [op |-> "check_all_limits", licensed |-> TRUE,
                           alerts_created |-> after.created,
                           resources_checked |-> after.checked,
                           calls |-> AlertCalls(limits)]
    /\ UNCHANGED <<now, ticks, settings, records, nextName, queue, reported, deleted,
                   license, callVars>>

(* Licenses offered: no limit map, or limits on two resources (validate  *)
(* adds a 0 for the seven others)                                         *)
CheckAllLimitMaps == {<<>>, [api_calls |-> 10, emails |-> 10]}

CheckAllStatuses == {"Active"}

CheckAllResources == {"api_calls", "emails"}

(* Quantities offered: one record is 80% or 100% of the limit 10 *)
CheckAllUsages == {8, 10}

CheckAllTickSteps == {1440}

InitCheckAll == InitMeter

NextCheckAll ==
    \/ \E l \in CheckAllLimitMaps, st \in CheckAllStatuses :
          SaveLicense([tier |-> "Pioneer", status |-> st, expiry_date |-> None,
                       resource_limits |-> l,
                       enabled_features |-> {}, enabled_apps |-> {}])
    \/ \E res \in CheckAllResources, q \in CheckAllUsages : RecordUsage(res, q, FALSE, TRUE)
    \/ \E ok \in BOOLEAN : CheckAllLimits(ok)
    \/ \E step \in CheckAllTickSteps : Tick(step)

SpecCheckAll == InitCheckAll /\ [][NextCheckAll]_vars

----------------------------------------------------------------------------
(* Retention against the month of get_current_usage: the table on any day *)
(* of a year, holding a record created RetentionSpan days earlier          *)

(* Days of the year offered as today: every day from 1 February to         *)
(* 31 January of the next year                                             *)
DayInputs == 31..395

(* How many days before today the stored record was created: the days    *)
(* around the cutoff of 30                                                 *)
RetentionSpan == 29..32

(* Minutes of the day at which the stored record was created *)
CreationMinutes == {0, 720}

(* A record as record_usage, aggregate_usage and sync_usage_to_central     *)
(* leave it when all three ran at time t                                   *)
SyncedRecord(name, t) ==
    SyncMark(AggregateMark(NewRecord(name, "api_calls", 1, t), t), t)

InitRetention ==
    /\ InitStore
    /\ req = [pc |-> "idle"]
    /\ ov = [pc |-> "idle"]

(* The site is taken up on day d with a record created k days earlier *)
OpenOn(d, k, m, synced) ==
    /\ now' = Midnight(d) + 720
    /\ records' = {IF synced THEN SyncedRecord(1, Midnight(d - k) + m)
                   ELSE NewRecord(1, "api_calls", 1, Midnight(d - k) + m)}
    /\ nextName' = 2
    /\ reported' = IF synced THEN {1} ELSE {}
    /\ ret' = [op |-> "open"]
    /\ UNCHANGED <<ticks, settings, queue, deleted, licVars, alertVars, callVars>>

RetentionTickSteps == {1440}

(* The first step of a run chooses the day and the stored record *)
Opening ==
    /\ ret.op = "init"
    /\ \E d \in DayInputs, k \in RetentionSpan, m \in CreationMinutes, s \in BOOLEAN :
          OpenOn(d, k, m, s)

NextRetention ==
    \/ Opening
    \/ \E res \in MeterResources : RecordUsage(res, 1, FALSE, TRUE)
    \/ CleanupOldRecords
    \/ \E step \in RetentionTickSteps : Tick(step)

SpecRetention == InitRetention /\ [][NextRetention]_vars

----------------------------------------------------------------------------
(* Properties of the metering runs *)

Unaggregated(S) == {r \in S : r.aggregated = 0}

Row(S, n) == CHOOSE r \in S : r.name = n

(* C1: whenever sync_usage_to_central returns success=False no Usage       *)
(* Record differs from what it was before the call, and a record's synced  *)
(* flag becomes 1 only in a run whose report_usage call returned success   *)
(* and included that record.                                               *)
C1_FailedSyncChangesNothing ==
    [][ret'.op = "sync_usage" =>
         /\ (ret'.success = FALSE => records' = records)
         /\ \A r \in records : \A x \in records' :
                (x.name = r.name /\ r.synced = 0 /\ x.synced = 1)
                    => (x.name \in reported' /\ x.name \notin reported)]_vars

(* C2: a Usage Record is deleted only after it was included in a           *)
(* report_usage call that returned success; no record with synced=0 is     *)
(* ever deleted.                                                           *)
C2_DeletedOnlyAfterReported ==
    \A d \in deleted : d.synced = 1 /\ d.name \in reported

C2_Witness == deleted # {}

----------------------------------------------------------------------------
(* Properties of the limit evaluator *)

(* The limit map of the license get_license returns, when there is one *)
SeenLimits == (CHOOSE l \in GetLicense : TRUE).resource_limits

(* C4: for every resource whose license limit is 0, or which is missing    *)
(* from the license's limit map, check_limits returns "ok" whatever the    *)
(* current-month usage and the two thresholds are.                         *)
C4_UnlimitedIsOk ==
    [][(/\ ret'.op = "check_limits"
        /\ GetLicense # {}
        /\ (ret'.resource \notin DOMAIN SeenLimits \/ SeenLimits[ret'.resource] = 0))
          => ret'.status = "ok"]_vars

C4_Witness ==
    /\ ret.op = "check_limits"
    /\ ret.resource = "api_calls"
    /\ ret.status = "ok"
    /\ GetLicense # {}
    /\ "api_calls" \in DOMAIN SeenLimits
    /\ SeenLimits["api_calls"] = 0
    /\ GetCurrentUsage("api_calls") >= 10
    /\ settings.hard_limit_threshold = 0

(* C5: for a resource with limit > 0 and pct = usage / limit * 100,        *)
(* check_limits returns "exceeded" exactly when pct >= hard_limit_threshold,*)
(* "warning" exactly when warning_threshold <= pct < hard_limit_threshold  *)
(* and "ok" exactly when pct < warning_threshold.                          *)
C5_ThreeStates ==
    [][ret'.op = "check_limits" =>
         LET limit == GetResourceLimit(ret'.resource)
             pct100 == GetCurrentUsage(ret'.resource) * 100
             w == settings.warning_threshold * limit
             h == settings.hard_limit_threshold * limit
         IN  limit > 0 =>
                /\ (ret'.status = "exceeded" <=> pct100 >= h)
                /\ (ret'.status = "warning" <=> (w <= pct100 /\ pct100 < h))
                /\ (ret'.status = "ok" <=> pct100 < w)]_vars

(* The three states of C5 while the stored thresholds are ordered *)
C5_ThreeStatesWhenOrdered ==
    [][(ret'.op = "check_limits"
        /\ settings.warning_threshold < settings.hard_limit_threshold)
          => LET limit == GetResourceLimit(ret'.resource)
                 pct100 == GetCurrentUsage(ret'.resource) * 100
                 w == settings.warning_threshold * limit
                 h == settings.hard_limit_threshold * limit
             IN  limit > 0 =>
                    /\ (ret'.status = "exceeded" <=> pct100 >= h)
                    /\ (ret'.status = "warning" <=> (w <= pct100 /\ pct100 < h))
                    /\ (ret'.status = "ok" <=> pct100 < w)]_vars

----------------------------------------------------------------------------
(* Properties of the overage calculators *)

(* (E / N) * R, or E * R for a resource priced per unit, in money units *)
ProportionalCost(resource, excess) ==
    LET r == OverageRates[resource].rate
        n == IF resource \in {"api_calls", "executions"} THEN 10000
             ELSE IF resource = "emails" THEN 1000 ELSE 1
        mills == excess * r
    IN  (mills \div n) * MoneyPerMill + ((mills % n) * MoneyPerMill) \div n

Excess == ov.current - ov.limit

(* C9 as stated: for every excess E > 0 over the limit the cost reported   *)
(* by calculate_overage and the one stored by UsageAlert.validate are both *)
(* (E / N) * R, resp. E * R, and webhooks always costs 0.                  *)
C9_BothProportional ==
    (ov.pc = "priced" /\ ov.limit > 0 /\ Excess > 0) =>
        /\ ov.metering.overage_cost = ProportionalCost(ov.resource, Excess)
        /\ ov.alert.overage_amount = ProportionalCost(ov.resource, Excess)
        /\ (ov.resource = "webhooks" => ov.metering.overage_cost = 0)

(* C9 amended: calculate_overage reports (E / N) * R, resp. E * R, rounded *)
(* to the nearest cent, so an excess worth less than half a cent is        *)
(* reported as 0; UsageAlert.validate stores the unrounded (E / N) * R,    *)
(* resp. E * R, for an Exceeded or Blocked alert; webhooks always costs 0. *)
C9_RoundedAndProportional ==
    (ov.pc = "priced" /\ ov.limit > 0 /\ Excess > 0) =>
        /\ ov.metering.exceeded_by = Excess
        /\ ov.metering.overage_cost % MoneyPerCent = 0
        /\ 2 * (ov.metering.overage_cost - ProportionalCost(ov.resource, Excess))
              <= MoneyPerCent
        /\ 2 * (ProportionalCost(ov.resource, Excess) - ov.metering.overage_cost)
              <= MoneyPerCent
        /\ (ov.alert_type \in {"Exceeded", "Blocked"} =>
               ov.alert.overage_amount = ProportionalCost(ov.resource, Excess))
        /\ (ov.resource = "webhooks" =>
               ov.metering.overage_cost = 0 /\ ov.alert.overage_amount = 0)

(* An excess of less than one block, priced between zero and a full block *)
C9_Witness ==
    /\ ov.pc = "priced"
    /\ ov.resource = "api_calls"
    /\ ov.alert_type = "Exceeded"
    /\ Excess = 5000
    /\ ov.metering.overage_cost = 25 * MoneyPerCent
    /\ ov.alert.overage_amount = 25 * MoneyPerCent

----------------------------------------------------------------------------
(* Properties of the alert issuer *)

(* The unacknowledged alerts of a pair that were created today *)
OpenToday(resource, type) ==
    {a \in alerts : /\ a.resource_type = resource
                    /\ a.alert_type = type
                    /\ a.acknowledged = 0
                    /\ Today(a.creation) = Today(now)}

AlertNames(S) == {a.name : a \in S}

(* C7: after any sequence of create_alert and acknowledge calls there is   *)
(* for each (resource_type, alert_type) pair at most one unacknowledged    *)
(* alert created today, and a create_alert call that finds such an alert   *)
(* inserts nothing and returns that alert with current_usage set to the    *)
(* value just passed.                                                      *)
C7_OneOpenAlertPerPair ==
    /\ [](\A res \in ResourceType, ty \in {"Warning", "Exceeded", "Blocked"} :
             Cardinality(OpenToday(res, ty)) <= 1)
    /\ [][(ret'.op = "create_alert"
           /\ OpenToday(ret'.resource_type, ret'.alert_type) # {})
             => /\ AlertNames(alerts') = AlertNames(alerts)
                /\ ret'.name \in AlertNames(OpenToday(ret'.resource_type, ret'.alert_type))
                /\ \E a \in alerts' : /\ a.name = ret'.name
                                      /\ a.current_usage = ret'.current_usage
                                      /\ a.acknowledged = 0]_vars

(* An open alert was found and its usage replaced by a different value *)
C7_Witness ==
    /\ ret.op = "create_alert"
    /\ ~ ret.inserted
    /\ ret.current_usage = 12
    /\ \E a \in alerts : a.name = ret.name /\ a.current_usage = 12 /\ a.overage_amount > 0
    /\ Cardinality(alerts) = 2

(* C8: once the open alert of a pair has been acknowledged, the next       *)
(* create_alert call for that pair on the same day inserts a new alert     *)
(* with a different name, and the acknowledged alert stays acknowledged    *)
(* with its current_usage unchanged.                                       *)
C8_NewAlertAfterAcknowledge ==
    [][(/\ ret'.op = "create_alert"
        /\ OpenToday(ret'.resource_type, ret'.alert_type) = {}
        /\ \E a \in alerts : /\ a.resource_type = ret'.resource_type
                             /\ a.alert_type = ret'.alert_type
                             /\ a.acknowledged = 1
                             /\ Today(a.creation) = Today(now))
          => /\ ret'.name \notin AlertNames(alerts)
             /\ ret'.name \in AlertNames(alerts')
             /\ \A a \in alerts : a.acknowledged = 1 => a \in alerts']_vars

(* The acknowledged alert and the one opened after it, on the same day *)
C8_Witness ==
    /\ ret.op = "create_alert"
    /\ ret.inserted
    /\ \E a \in alerts : /\ a.name # ret.name
                         /\ a.resource_type = ret.resource_type
                         /\ a.alert_type = ret.alert_type
                         /\ a.acknowledged = 1
                         /\ a.current_usage # ret.current_usage
                         /\ Today(a.creation) = Today(now)

----------------------------------------------------------------------------
(* Properties of the retrying client *)

NetworkFailure(o) == o.kind \in {"timeout", "connection", "request_error"}

(* C10 as stated: at most 3 requests per call; the call returns at the     *)
(* first attempt answered with a success (2xx) status and parseable JSON;  *)
(* a further attempt follows exactly when the previous one ended in a      *)
(* network error, a timeout, malformed JSON or a status that is neither    *)
(* 2xx nor 401/403/404 and fewer than 3 attempts were made; the call       *)
(* sleeps 2^k seconds after failed attempt k = 0, 1 and not after the last.*)
C10_RetriesOnNon2xx ==
    /\ [](req.pc # "idle" => req.sent <= 3)
    /\ [][(req.pc = "running" /\ req'.sent = req.sent + 1) =>
            LET o == req'.last
                success == o.kind = "response" /\ o.status >= 200 /\ o.status <= 299
                           /\ o.json
                retryable == \/ NetworkFailure(o)
                             \/ o.kind = "response" /\ o.status >= 200
                                /\ o.status <= 299 /\ ~ o.json
                             \/ o.kind = "response"
                                /\ ~ (o.status >= 200 /\ o.status <= 299)
                                /\ o.status \notin {401, 403, 404}
            IN  /\ success => (req'.pc = "returned" /\ req'.result.success)
                /\ (req'.pc = "running") <=> (retryable /\ req'.sent < 3)
                /\ req'.slept = IF req'.pc = "running"
                                THEN Append(req.slept, 2 ^ req.sent)
                                ELSE req.slept]_vars

(* C10 amended: at most 3 requests per call; the call returns at the first *)
(* attempt answered with status 200 and parseable JSON; a further attempt  *)
(* follows exactly when the previous one ended in a network error, a       *)
(* timeout, malformed JSON on a 200 answer or a status that is neither 200 *)
(* nor 401/403/404 (other 2xx statuses included) and fewer than 3 attempts *)
(* were made; the call sleeps 2^k seconds after failed attempt k = 0, 1    *)
(* and not after the last.                                                 *)
C10_RetriesOnNon200 ==
    /\ [](req.pc # "idle" => req.sent <= 3)
    /\ [][(req.pc = "running" /\ req'.sent = req.sent + 1) =>
            LET o == req'.last
                success == o.kind = "response" /\ o.status = 200 /\ o.json
                retryable == \/ NetworkFailure(o)
                             \/ o.kind = "response" /\ o.status = 200 /\ ~ o.json
                             \/ o.kind = "response"
                                /\ o.status \notin {200, 401, 403, 404}
            IN  /\ success => (req'.pc = "returned" /\ req'.result.success)
                /\ (req'.pc = "running") <=> (retryable /\ req'.sent < 3)
                /\ req'.slept = IF req'.pc = "running"
                                THEN Append(req.slept, 2 ^ req.sent)
                                ELSE req.slept]_vars

(* Two failed attempts with their pauses, then a third that succeeds *)
C10_Witness ==
    /\ req.pc = "returned"
    /\ req.sent = 3
    /\ req.slept = <<1, 2>>
    /\ req.result.success

(* The message the caller gets for a refused request *)
RefusalMessage(status) ==
    IF status = 401 THEN "Authentication failed"
    ELSE IF status = 403 THEN "Access denied"
    ELSE "Endpoint not found"

Refused(o) == o.kind = "response" /\ o.status \in {401, 403, 404}

(* C11: an attempt answered with 401, 403 or 404 ends the call at once     *)
(* with success=False and the message "Authentication failed", "Access     *)
(* denied" or "Endpoint not found"; no further request is sent, no backoff *)
(* sleep happens and no error is logged, whichever attempt it was.         *)
C11_RefusalShortCircuits ==
    /\ [][(req.pc = "running" /\ req'.sent = req.sent + 1 /\ Refused(req'.last)) =>
            /\ req'.pc = "returned"
            /\ req'.result = [success |-> FALSE,
                              message |-> RefusalMessage(req'.last.status)]
            /\ req'.slept = req.slept
            /\ req'.logged = req.logged
            /\ req'.logged = 0]_vars
    /\ [][(req.pc = "returned" /\ Refused(req.last)) =>
            (req' = req \/ (req'.pc = "running" /\ req'.sent = 0))]_vars

(* A 404 on the second attempt, after one pause, ends the call unlogged *)
C11_Witness ==
    /\ req.pc = "returned"
    /\ req.sent = 2
    /\ req.last.status = 404
    /\ req.slept = <<1>>
    /\ req.logged = 0
    /\ req.result.message = "Endpoint not found"

(* C12: when all 3 attempts fail with retryable errors the call returns    *)
(* success=False with the error of the last attempt as message and writes  *)
(* exactly one error-log entry; a call in which an attempt succeeded or    *)
(* short-circuited writes none.                                            *)
C12_ExhaustedIsLoggedOnce ==
    /\ req.pc = "running" => req.logged = 0
    /\ req.pc = "returned" =>
          IF Len(req.errors) = RetryCount
          THEN /\ req.sent = 3
               /\ req.result = [success |-> FALSE, message |-> req.errors[3]]
               /\ req.logged = 1
          ELSE /\ ReturnsAtOnce(req.last)
               /\ req.logged = 0

(* Three different failures; the caller gets the third and one log entry *)
C12_Witness ==
    /\ req.pc = "returned"
    /\ req.errors = <<"Request timed out", "HTTP 201", "HTTP 500">>
    /\ req.result.message = "HTTP 500"
    /\ req.logged = 1

----------------------------------------------------------------------------
(* Properties of the license cache *)

(* The stored license as get_active_license finds it *)
StoredLicense == {LicenseDict(doc) : doc \in GetActiveLicense}

(* C13: the get_license call that follows a local save of the App License  *)
(* or a successful sync_license returns tier, status, is_valid and limits  *)
(* of the license as just stored, never the values cached before; and a    *)
(* cached value is served for at most cache_ttl_seconds.                   *)
C13_FreshAfterChange ==
    /\ [](\A c \in licenseData :
            c.expires * 60 <= now * 60 + settings.cache_ttl_seconds)
    /\ [][(/\ (ret.op = "save_license" \/ (ret.op = "sync_license" /\ ret.success))
            /\ ret'.op = "get_license"
            /\ StoredLicense # {})
           => ret'.license = StoredLicense]_vars

----------------------------------------------------------------------------
(* Properties of the quota wrapper *)

StoreUntouched == records' = records /\ nextName' = nextName /\ queue' = queue

(* C14: the wrapped function is not executed and no usage is recorded when *)
(* check_limits is "exceeded" and block_on_exceeded is set (ValidationError*)
(* is raised); otherwise it is executed, and record_usage(resource,        *)
(* quantity) is called exactly once after a normal return and not at all   *)
(* when the function raises.                                               *)
C14_QuotaGate ==
    [][ret'.op = "requires_quota" =>
         LET exceeded == LimitStatus(settings, GetResourceLimit(ret'.resource),
                                     GetCurrentUsage(ret'.resource)) = "exceeded"
         IN  IF exceeded /\ settings.block_on_exceeded = 1
             THEN /\ ret'.executed = 0
                  /\ ret'.raised = "ValidationError"
                  /\ ret'.record_usage = <<>>
                  /\ StoreUntouched
             ELSE /\ ret'.executed = 1
                  /\ IF ret'.raised = "wrapped"
                     THEN ret'.record_usage = <<>> /\ StoreUntouched
                     ELSE /\ ret'.raised = "none"
                          /\ ret'.record_usage = << <<ret'.resource, ret'.quantity>> >>]_vars

(* A refused call: the limit of 2 is used up and blocking is on *)
C14_Witness ==
    /\ ret.op = "requires_quota"
    /\ ret.raised = "ValidationError"
    /\ ret.executed = 0
    /\ settings.block_on_exceeded = 1
    /\ GetCurrentUsage("api_calls") = 2

----------------------------------------------------------------------------
(* Properties of the license gate *)

(* C15: the wrapped function is executed only when get_license finds a     *)
(* license, the license is valid, the feature (if given) is in its enabled *)
(* features and the app (if given) is in its enabled apps; in every other  *)
(* case PermissionError is raised and the function is never run.           *)
C15_LicenseGate ==
    ret.op = "requires_license" =>
        LET entitled ==
              /\ ret.license # {}
              /\ \A l \in ret.license :
                    /\ l.is_valid
                    /\ ret.feature # "" => ret.feature \in l.enabled_features
                    /\ ret.app # "" => ret.app \in l.enabled_apps
        IN  /\ ret.executed = 1 <=> entitled
            /\ ret.executed = 0 <=> ret.raised = "PermissionError"
            /\ ret.executed \in {0, 1}

(* A call refused for the app alone: the license is valid, the feature is  *)
(* enabled and the app is not                                              *)
C15_Witness ==
    /\ ret.op = "requires_license"
    /\ ret.feature = "webhooks"
    /\ ret.app = "flowz"
    /\ ret.refusal = "app"
    /\ ret.executed = 0

(* C16: is_valid is True exactly when status is Active or Trial and the    *)
(* expiry date is absent or not earlier than today: a license that expires *)
(* today is valid, one that expired yesterday is not, and Suspended or     *)
(* Expired status is invalid whatever the date.                            *)
C16_ValidIffActiveAndUnexpired ==
    ret.op = "is_valid" =>
        LET doc == ret.doc
            today == Today(now)
            live == doc.status = "Active" \/ doc.status = "Trial"
        IN  /\ ret.result <=> (live /\ (doc.expiry_date = None \/ ~ (doc.expiry_date < today)))
            /\ (live /\ doc.expiry_date = today) => ret.result
            /\ (doc.expiry_date # None /\ doc.expiry_date = today - 1) => ~ ret.result
            /\ doc.status \in {"Suspended", "Expired"} => ~ ret.result

(* A Trial license asked on the day it expires *)
C16_Witness ==
    /\ ret.op = "is_valid"
    /\ ret.doc.status = "Trial"
    /\ Today(now) = 1
    /\ ret.doc.expiry_date = 1
    /\ ret.result

----------------------------------------------------------------------------
(* Properties of the settings *)

(* C17: the stored settings always have warning_threshold below            *)
(* hard_limit_threshold; a save with warning_threshold >=                  *)
(* hard_limit_threshold is rejected for every pair of values and leaves    *)
(* the stored settings unchanged.                                          *)
C17_ThresholdsOrdered ==
    /\ [](settings.warning_threshold < settings.hard_limit_threshold)
    /\ [][(ret'.op = "save_settings" /\ ~ ret'.success) => settings' = settings]_vars

----------------------------------------------------------------------------
(* Properties of record_usage *)

(* C18: record_usage with quantity > 0 leads to exactly one attempt to     *)
(* create a Usage Record: one job on the queue when enqueueing succeeds,   *)
(* one direct insert only when the enqueue call raises, never both; each   *)
(* job is run once; with quantity <= 0 nothing is enqueued or created.     *)
C18_OneCreationAttempt ==
    /\ [][ret'.op = "record_usage" =>
            LET enqueued == Len(queue') - Len(queue)
                created == Cardinality(records') - Cardinality(records)
            IN  IF ret'.quantity > 0
                THEN \/ /\ ret'.path = "queue"
                        /\ enqueued = 1 /\ created = 0 /\ nextName' = nextName
                        /\ queue'[Len(queue')].quantity = ret'.quantity
                     \/ /\ ret'.path = "fallback"
                        /\ enqueued = 0 /\ created \in {0, 1}
                ELSE /\ ret'.path = "none"
                     /\ enqueued = 0 /\ created = 0]_vars
    /\ [][ret'.op = "run_job" =>
            /\ Len(queue') = Len(queue) - 1
            /\ Cardinality(records') - Cardinality(records) =
                  IF ret'.inserted THEN 1 ELSE 0]_vars

(* One record came through the queue, the next call fell back to the       *)
(* direct insert                                                           *)
C18_Witness ==
    /\ ret.op = "record_usage"
    /\ ret.path = "fallback"
    /\ Cardinality(records) = 2
    /\ queue = <<>>

----------------------------------------------------------------------------
(* Properties of the alert emails *)

MailCount(outbox, name) == IF name \in DOMAIN outbox THEN outbox[name] ELSE 0

AlertNamed(S, name) == CHOOSE a \in S : a.name = name

MailEnabled == settings.send_alert_emails # 0 /\ settings.alert_email # ""

----------------------------------------------------------------------------
(* Properties of the request headers *)

SignatureHeaders == {"X-Api-Signature", "X-Api-Timestamp"}

(* C20: every POST sent carries the X-Api-Key header, and carries the      *)
(* X-Api-Signature and X-Api-Timestamp headers exactly when an API secret  *)
(* is configured; _generate_signature returns the empty string for an      *)
(* empty secret and otherwise a value that is the same for any two calls   *)
(* with the same payload and the same secret.                              *)
C20_SignedWhenSecret ==
    /\ (req.pc # "idle" /\ req.sent > 0) =>
          /\ "X-Api-Key" \in DOMAIN req.headers
          /\ req.headers["X-Api-Key"] = <<req.api_key>>
          /\ IF req.api_secret # ""
             THEN /\ SignatureHeaders \subseteq DOMAIN req.headers
                  /\ \E s \in signatures :
                        /\ s.secret = req.api_secret /\ s.payload = req.data
                        /\ req.headers["X-Api-Signature"] = <<s.signature>>
             ELSE SignatureHeaders \cap DOMAIN req.headers = {}
    /\ \A s \in signatures :
          /\ s.secret = "" => s.signature = <<>>
          /\ s.secret # "" => s.signature # <<>>
          /\ \A t \in signatures :
                (t.secret = s.secret /\ t.payload = s.payload)
                    => t.signature = s.signature

(* A signed POST was sent a minute after _generate_signature was called    *)
(* with the same secret and payload, and a call with no secret was made    *)
C20_Witness ==
    /\ req.pc # "idle" /\ req.sent > 0
    /\ req.api_secret = "secret"
    /\ now > 0
    /\ ret.op = "attempt"
    /\ \E s \in signatures : s.secret = ""
    /\ Cardinality({s \in signatures : s.secret = "secret"}) = 2

----------------------------------------------------------------------------
(* Properties of the job runs taken step by step *)

(* The flag a run of the given kind sets *)
FlagOf(kind, r) == IF kind = "aggregate" THEN r.aggregated ELSE r.synced

(* C21: when a run of aggregate_usage or sync_usage_to_central crashes      *)
(* after it updated some records of its batch, the records it had updated   *)
(* keep their flag.                                                         *)
C21_CrashKeepsFlags ==
    [][ret'.op = "crash" =>
          \A n \in ret'.written : FlagOf(ret'.kind, CHOOSE r \in records' : r.name = n) = 1]_vars

(* A sync run crashed after report_usage answered success and a record was  *)
(* marked: the record was reported and is still synced=0                    *)
C21_Witness ==
    /\ ret.op = "crash"
    /\ ret.kind = "sync"
    /\ \E r \in records : r.name \in ret.written /\ r.name \in reported /\ r.synced = 0

----------------------------------------------------------------------------
(* Properties of a failing update inside aggregate_usage *)

(* C22: when updating a record fails inside aggregate_usage, the failure is *)
(* logged and only that record is skipped: every other selected record,     *)
(* the others of its (resource, hour) group included, is marked in that     *)
(* run, the failed record stays aggregated=0, and aggregated_count is the   *)
(* number of records marked.                                                *)
C22_OnlyFailedRecordSkipped ==
    [][(ret'.op = "aggregate_usage" /\ ret'.failed # {}) =>
          /\ ret'.logged
          /\ \A r \in Unaggregated(records) :
                Row(records', r.name).aggregated = (IF r.name \in ret'.failed THEN 0 ELSE 1)
          /\ ret'.aggregated_count = Cardinality(records \ records')]_vars

(* A run in which the update of one record failed and a record of the same *)
(* group, whose own update never failed, is still aggregated=0             *)
C22_Witness ==
    /\ ret.op = "aggregate_usage"
    /\ Cardinality(ret.failed) = 1
    /\ \E r \in records, x \in records :
          /\ r.name \in ret.failed
          /\ x.name \notin ret.failed
          /\ SameGroup(r, x)
          /\ x.aggregated = 0
          /\ x.timestamp >= r.timestamp

----------------------------------------------------------------------------
(* Properties of the aggregation periods *)

(* The number of the hour a time falls in *)
HourNumber(t) == t \div MinutesPerHour

(* C23: every record marked by aggregate_usage has period_start equal to   *)
(* its timestamp truncated to the hour and period_end one hour later, so   *)
(* period_start <= timestamp < period_end; two marked records of the same  *)
(* resource have the same period exactly when their timestamps fall in the *)
(* same hour; no group of a run sums records of different resources.       *)
C23_PeriodIsHourOfTimestamp ==
    /\ [](\A r \in records : r.aggregated = 1 =>
             /\ r.period_start % MinutesPerHour = 0
             /\ r.period_start <= r.timestamp
             /\ r.timestamp < r.period_end
             /\ r.period_end = r.period_start + MinutesPerHour)
    /\ [](\A r \in records, x \in records :
             (r.aggregated = 1 /\ x.aggregated = 1 /\ r.resource_type = x.resource_type) =>
                 ((r.period_start = x.period_start /\ r.period_end = x.period_end)
                      <=> HourNumber(r.timestamp) = HourNumber(x.timestamp)))
    /\ [][ret'.op = "aggregate_usage" =>
             \A g \in AggregateGroups(Unaggregated(records)) :
                 /\ \A r \in records : r.name \in g.records => r.resource_type = g.resource_type
                 /\ g.quantity = SumQuantity({r \in Unaggregated(records) :
                                                 /\ r.resource_type = g.resource_type
                                                 /\ HourNumber(r.timestamp) = HourNumber(g.hour)})]_vars

(* Two marked records of one resource whose timestamps are different      *)
(* minutes of the same hour, one of them not on the hour                   *)
C23_Witness ==
    \E r \in records, x \in records :
        /\ r.aggregated = 1 /\ x.aggregated = 1
        /\ r.resource_type = x.resource_type
        /\ r.timestamp # x.timestamp
        /\ r.period_start = x.period_start
        /\ r.timestamp > r.period_start

----------------------------------------------------------------------------
(* Properties of overlapping runs *)

(* C24: when two runs of aggregate_usage, or two runs of                    *)
(* sync_usage_to_central, overlap and pick up the same record, the record   *)
(* ends with the flags and period bounds a single run gives it, and no run  *)
(* resets a flag another run set.                                           *)
C24_OverlapLikeSingleRun ==
    /\ [][\A r \in records :
             /\ r.aggregated <= Row(records', r.name).aggregated
             /\ r.synced <= Row(records', r.name).synced]_vars
    /\ [][ret'.op = "commit" =>
             \A r \in records :
                 LET m == Row(records', r.name)
                 IN  IF r.name \notin ret'.written THEN m = r
                     ELSE IF ret'.kind = "aggregate"
                     THEN /\ m.aggregated = 1
                          /\ m.period_start = MinutesPerHour * (r.timestamp \div MinutesPerHour)
                          /\ m.period_end = m.period_start + MinutesPerHour
                          /\ m.synced = r.synced
                     ELSE /\ m.synced = 1
                          /\ m.aggregated = r.aggregated
                          /\ m.period_start = r.period_start
                          /\ m.period_end = r.period_end]_vars

(* The second of two overlapping aggregate runs has committed a record the *)
(* first had committed, and a sync run had marked, in between              *)
C24_Witness ==
    /\ ret.op = "commit"
    /\ ret.kind = "aggregate"
    /\ \E r \in records :
          /\ r.name \in ret.written
          /\ r.synced = 1
          /\ r.aggregated_at > r.period_start

----------------------------------------------------------------------------
(* Properties of the progress runs *)

Exists(n) == \E r \in records : r.name = n

Synced(n) == \E r \in records : r.name = n /\ r.synced = 1

(* C25: when aggregate_usage and sync_usage_to_central keep being run, a   *)
(* license key is configured and report_usage eventually answers success,  *)
(* every Usage Record ever created eventually has synced=1, also with more *)
(* than one batch waiting and records still arriving; a sync run marks     *)
(* only records that had aggregated=1 and synced=0, the oldest period      *)
(* first.                                                                  *)
C25_EveryRecordEventuallySynced ==
    /\ \A n \in 1..MaxRecords : Exists(n) ~> Synced(n)
    /\ [][ret'.op = "sync_usage" =>
             \A r \in records :
                 Row(records', r.name) # r =>
                     /\ r.aggregated = 1
                     /\ r.synced = 0
                     /\ \A x \in records :
                           (SyncFilter(x) /\ Row(records', x.name) = x) =>
                               x.period_start >= r.period_start]_vars

(* A run has synced one batch while a record of a later period, more than *)
(* the batch takes, is still waiting                                      *)
C25_Witness ==
    /\ ret.op = "sync_usage"
    /\ ret.success
    /\ ret.synced_count = SmallBatch
    /\ \E r \in records, x \in records :
          /\ r.synced = 1
          /\ SyncFilter(x)
          /\ x.period_start > r.period_start

----------------------------------------------------------------------------
(* Properties of check_all_limits *)

(* What check_limits(resource) answers in the current state *)
StatusOf(resource) ==
    LimitStatus(settings, GetResourceLimit(resource), GetCurrentUsage(resource))

(* Today's open alerts of a resource and type in the table A *)
OpenIn(A, resource, type) ==
    {a \in A : /\ a.resource_type = resource
               /\ a.alert_type = type
               /\ a.acknowledged = 0
               /\ a.creation >= Midnight(Today(now))}

(* C26: for every resource in the license's limit map, one run of          *)
(* check_all_limits creates or updates an Exceeded alert exactly when      *)
(* check_limits(resource) is "exceeded", a Warning alert exactly when it   *)
(* is "warning", and none when it is "ok"; alerts_created is the number    *)
(* of resources whose state is not "ok" and resources_checked the size of  *)
(* the limit map.                                                          *)
C26_AlertsFollowCheckLimits ==
    [][(ret'.op = "check_all_limits" /\ ret'.licensed) =>
          /\ \A res \in DOMAIN SeenLimits :
                /\ (<<res, "Exceeded">> \in ret'.calls) <=> (StatusOf(res) = "exceeded")
                /\ (<<res, "Warning">> \in ret'.calls) <=> (StatusOf(res) = "warning")
                /\ \A type \in {"Exceeded", "Warning"} :
                      IF <<res, type>> \in ret'.calls
                      THEN \E a \in OpenIn(alerts', res, type) :
                              a.current_usage = GetCurrentUsage(res)
                      ELSE OpenIn(alerts', res, type) = OpenIn(alerts, res, type)
          /\ ret'.alerts_created = Cardinality({res \in DOMAIN SeenLimits : StatusOf(res) # "ok"})
          /\ ret'.resources_checked = Cardinality(DOMAIN SeenLimits)
          /\ \A a \in alerts' \ alerts : <<a.resource_type, a.alert_type>> \in ret'.calls]_vars

(* A run that found one resource exceeded and one at warning, with the    *)
(* other resources of the map unlimited                                    *)
C26_Witness ==
    /\ ret.op = "check_all_limits"
    /\ ret.alerts_created = 2
    /\ ret.resources_checked = 9
    /\ \E x \in ret.calls, y \in ret.calls : x[2] = "Exceeded" /\ y[2] = "Warning"
    /\ \E a \in alerts : a.alert_type = "Exceeded"
    /\ \E a \in alerts : a.alert_type = "Warning"

----------------------------------------------------------------------------
(* Properties of the record flags *)

(* C27: in every state reachable through record_usage, aggregate_usage,    *)
(* sync_usage_to_central and cleanup_old_records the aggregated and synced *)
(* flags of a record only change from 0 to 1 and synced=1 implies          *)
(* aggregated=1: no record is reported upstream before it was aggregated,  *)
(* none is un-aggregated or un-synced.                                     *)
C27_FlagsOnlyRise ==
    /\ [](\A r \in records \cup deleted :
             /\ r.aggregated \in {0, 1}
             /\ r.synced \in {0, 1}
             /\ (r.synced = 1 => r.aggregated = 1)
             /\ (r.name \in reported => r.aggregated = 1))
    /\ [][\A r \in records : \A m \in records' :
             m.name = r.name => (r.aggregated <= m.aggregated /\ r.synced <= m.synced)]_vars

(* A record that went through both jobs beside one that is aggregated and  *)
(* still waits for its sync                                                *)
C27_Witness ==
    \E r \in records, x \in records :
        /\ r.aggregated = 1 /\ r.synced = 1 /\ r.name \in reported
        /\ x.aggregated = 1 /\ x.synced = 0

----------------------------------------------------------------------------
(* Properties of retention and the usage month *)

(* C28: cleanup_old_records never changes get_current_usage of any         *)
(* resource: on every day of every month a record the job deletes, whose   *)
(* timestamp is not later than its creation, has a timestamp before the    *)
(* first day of the current month.                                         *)
C28_CleanupKeepsCurrentUsage ==
    [][ret'.op = "cleanup_old_records" =>
          /\ \A res \in ResourceType : GetCurrentUsage(res)' = GetCurrentUsage(res)
          /\ \A r \in records \ records' :
                r.timestamp <= r.creation => Today(r.timestamp) < MonthStart(now)]_vars

(* On the 31st of a month the job deleted a record created on the last day *)
(* of the month before, while a record of this month is counted            *)
C28_Witness ==
    /\ ret.op = "cleanup_old_records"
    /\ Today(now) = MonthStart(now) + 30
    /\ \E r \in deleted : Today(r.creation) = MonthStart(now) - 1
    /\ GetCurrentUsage("api_calls") = 1

----------------------------------------------------------------------------
(* Properties of the site without an active license *)

(* C29: when no App License with status Active or Trial exists,            *)
(* get_resource_limit returns 0 for every resource and check_limits        *)
(* returns "ok" whatever the recorded usage is.                            *)
C29_NoActiveLicenseNoLimit ==
    /\ [](GetActiveLicense = {} => \A res \in ResourceType : GetResourceLimit(res) = 0)
    /\ [][(GetActiveLicense = {} /\ ret'.op = "check_limits") => ret'.status = "ok"]_vars

(* check_limits answered "exceeded" although the only App License is       *)
(* suspended                                                               *)
C29_Witness ==
    /\ GetActiveLicense = {}
    /\ license # {}
    /\ ret.op = "check_limits"
    /\ ret.status = "exceeded"

----------------------------------------------------------------------------
(* Properties of a failing license sync *)

(* C30: a sync_license run that fails (no license key, an empty answer of  *)
(* the central service, or an exception) returns success=False and leaves  *)
(* every stored App License unchanged, so get_license keeps returning the  *)
(* license it returned before.                                             *)
C30_FailedSyncKeepsLicense ==
    [][ret'.op = "sync_license" =>
          /\ (settings.license_key = "" \/ ret'.raised # "none") => ~ ret'.success
          /\ ~ ret'.success => (license' = license /\ GetLicense' = GetLicense)]_vars

(* A run answered success False after it had stored a license that differs *)
(* from the one get_license returned before                                *)
C30_Witness ==
    /\ ret.op = "sync_license"
    /\ ~ ret.success
    /\ ret.raised = "cache"
    /\ \E doc \in license : doc.tier = "Builder"
    /\ \E c \in licenseData : c.data.tier = "Pioneer"

====
